---------------------------- MODULE Spec2Model ----------------------------
(***************************************************************************)
(* A model of the chat application's synchronisation code:                 *)
(*                                                                         *)
(*   SpecChat  the ChatProvider of context/ChatContext.tsx (chatReducer,   *)
(*             the push handlers, loadChats, loadMessages, sendMessage)    *)
(*             against the REST controllers of the backend;                *)
(*   SpecSrv   the backend's createChat handler under concurrent requests; *)
(*   SpecConn  SocketIOChatService (connect, waitForConnection,            *)
(*             attemptReconnect, disconnect) driven by the provider's      *)
(*             WebSocket effect and by the transport's events.             *)
(*   SpecTyping  typing events and their timers over those sessions;      *)
(*   SpecBack  the backend's sendMessage handler under concurrent requests;*)
(*   SpecPush  sendMessage with the socket server's relay (socket.ts) and  *)
(*             the clients' message listeners;                             *)
(*   SpecPresence  the socket server's join and disconnect handlers;       *)
(*   SpecMgr   WebSocketManager (connect, on, off, reconnect);             *)
(*   SpecPage  the backend's getMessages paging.                           *)
(*                                                                         *)
(* Every callback of the source (a fetch response, a push event, a timer,  *)
(* a promise continuation) is one action; callbacks interleave freely.     *)
(***************************************************************************)
EXTENDS Integers, Sequences, FiniteSets, TLC

(***************************************************************************)
(* Bounds of the model.                                                    *)
(***************************************************************************)
MaxChats == 2
MaxMsgs == 2
MaxCopies == 2
MaxOps == 3
MaxMsgFetch == 1
MaxReq == 2
MaxConn == 2
MaxTimers == 2
MaxLogins == 2
MaxTyping == 3
MaxPost == 2
MaxSocks == 2
MaxUp == 4
MaxMgrSocks == 2
MaxStored == 4
MaxPage == 4
MaxLimit == 2

ChatIds == 1..MaxChats
MsgIds == 1..MaxMsgs
Me == "me"
Peer == "peer"
NoMsg == 0
NoErr == "none"

VARIABLES
  \* ---- ChatProvider (context/ChatContext.tsx)
  state,            \* the reducer state: chats, messages, activeChat, isLoading, error
  currentStateRef,  \* currentStateRef.current: the state as of the last effect run
  token,            \* localStorage holds chat_auth_token
  msgFetch,         \* loadMessages calls in flight
  chatFetch,        \* the loadChats call in flight (with its retries)
  sendReq,          \* sendMessage calls in flight
  pushQ,            \* inbound socket events not yet delivered, oldest first
  \* ---- backend as the client sees it (chat / message collections)
  srvChats,
  srvMsgs,
  clock,            \* the server's time
  ops,              \* calls started so far (user actions here and elsewhere)
  \* ---- backend createChat (controllers/chatController.ts, models/Chat.ts)
  strictQuery,      \* mongoose drops filter paths the schema does not declare
  requests,         \* POST /chats requests being handled
  db,               \* the chats collection, in insertion order
  emitted,          \* chat:new events emitted, as <<room, chat id>>
  \* ---- SocketIOChatService and the provider's WebSocket effect
  isAuthenticated,  \* authState.isAuthenticated
  svc,              \* the fields of the SocketIOChatService singleton
  conn,             \* the connect() calls that made a promise: the promise and its socket
  timers,           \* the number of pending timers of attemptReconnect
  prov,             \* the provider's setupWebSocket chain and its refs; resynced is
                    \* history: loadChats was called since the connection last dropped
  userClosed,       \* history: disconnect() was called and no caller has called connect() since
  \* ---- the provider's typing indicator (state.typingStatus is a field of state)
  typingTimeoutsRef,  \* typingTimeoutsRef.current: per chat a timer id, 0 for no entry
  typingTimers,     \* the pending typing timers: id, chatId, time left, and the
                    \* isSubscribed its callback will read
  typingSeq,        \* typing events received so far
  lastTyping,       \* history: the last typing event received
  \* ---- MessageInput (components/chat) and its onSend
  inputValue,       \* state.value of the message input
  sendResult,       \* history: how the last sendMessage call that ended reported to
                    \* its caller
  \* ---- backend sendMessage and getMessages (chat controller), socket.ts
  msgReqs,          \* POST /chats/:chatId/messages requests being handled
  chatsColl,        \* the chats collection: per id absent, or participants, lastMessage
  msgColl,          \* the messages collection, in insertion order
  events,           \* the events the server emitted, as [name, room, msg]
  sockUp,           \* per socket: the server has it connected
  upQ,              \* events emitted by the clients and not yet handled by the server
  joined,           \* the rooms of the server's sockets, as <<socket, room>>
  onlineUsers,      \* the onlineUsers registry of socket.ts
  presence,         \* history: per id, the last of userOnline / userOffline broadcast
  inbox,            \* per socket, the message events sent to it and not yet dispatched
  invoked,          \* history: per socket and message, the calls of the message handler
  \* ---- WebSocketManager (services/chat) and the sockets it made
  mgr,              \* the fields of the WebSocketManager singleton
  mgrSocks,         \* per socket made by connect(): its state and its listeners
  mgrTimers,        \* the number of pending timers of attemptReconnect
  reg,              \* history: per handler, the last of on / off called with it
  lastCalls,        \* history: per handler, its calls at the last event occurrence
  \* ---- backend getMessages
  resp              \* the last response of GET /chats/:chatId/messages, with its request

chatVars == <<state, currentStateRef, token, msgFetch, chatFetch, sendReq,
              pushQ, srvChats, srvMsgs, clock, ops>>

srvVars == <<strictQuery, requests, db, emitted>>

connVars == <<isAuthenticated, svc, conn, timers, prov, userClosed>>

typingVars == <<typingTimeoutsRef, typingTimers, typingSeq, lastTyping>>

sendVars == <<inputValue, sendResult>>

sockVars == <<sockUp, upQ, joined, onlineUsers, presence, invoked>>

backVars == <<msgReqs, chatsColl, msgColl, events, inbox, sockVars>>

mgrVars == <<mgr, mgrSocks, mgrTimers, reg, lastCalls>>

pageVars == <<resp>>

vars == <<chatVars, srvVars, connVars, typingVars, sendVars, backVars, mgrVars, pageVars>>

\* what the actions of one part leave alone
notChatVars == <<srvVars, backVars, mgrVars, pageVars, connVars, typingVars, sendVars>>
notSrvVars == <<chatVars, backVars, mgrVars, pageVars, connVars, typingVars, sendVars>>
notBackVars == <<chatVars, srvVars, connVars, typingVars, sendVars, mgrVars, pageVars>>
notMgrVars == <<state, currentStateRef, msgFetch, chatFetch, sendReq, pushQ, srvChats,
                srvMsgs, clock, ops, srvVars, connVars, typingVars, sendVars, backVars,
                pageVars>>
notConnVars == <<currentStateRef, msgFetch, sendReq, pushQ, srvChats, srvMsgs, clock,
                 ops, srvVars, backVars, mgrVars, pageVars, typingSeq, lastTyping, sendVars>>
notTypingVars == <<token, isAuthenticated, currentStateRef, msgFetch, sendReq, pushQ,
                   srvChats, srvMsgs, clock, ops, srvVars, backVars, mgrVars, pageVars, sendVars>>

(***************************************************************************)
(* Helpers on sequences.                                                   *)
(***************************************************************************)
Range(s) == {s[i] : i \in 1..Len(s)}

Count(s, x) == Cardinality({i \in 1..Len(s) : s[i] = x})

Ids(s) == [i \in 1..Len(s) |-> s[i].id]

Min(a, b) == IF a < b THEN a ELSE b

RECURSIVE Pow2(_)
Pow2(n) == IF n = 0 THEN 1 ELSE 2 * Pow2(n - 1)

(***************************************************************************)
(* chatReducer.  A chat of the list is [id, lastMessage]; a message list   *)
(* holds message ids (a message's fields are fixed once the server has     *)
(* created it: srvMsgs[id]).                                               *)
(***************************************************************************)
NullChat == [id |-> 0, lastMessage |-> NoMsg]

initialState ==
  [activeChat |-> NullChat,
   chats |-> <<>>,
   messages |-> [c \in ChatIds |-> <<>>],
   isLoading |-> FALSE,
   error |-> NoErr,
   typingStatus |-> [c \in ChatIds |-> FALSE]]

\* the fields of currentStateRef.current that the handlers read
RefOf(s) == [chats |-> s.chats, messages |-> s.messages]

SET_ACTIVE_CHAT(s, chat) == [s EXCEPT !.activeChat = chat]

SET_CHATS(s, payload) == [s EXCEPT !.chats = payload]

ADD_CHAT(s, chat) == [s EXCEPT !.chats = <<chat>> \o s.chats]

FindChat(chats, c) ==
  IF \E i \in 1..Len(chats) : chats[i].id = c
  THEN chats[CHOOSE i \in 1..Len(chats) :
               chats[i].id = c /\ \A j \in 1..(i - 1) : chats[j].id # c]
  ELSE NullChat

\* UPDATE_CHAT that keeps the updated chat and drops the rest of the list
UPDATE_CHAT_Alone(s, payload) ==
  [s EXCEPT !.chats = <<payload>>,
            !.activeChat = IF s.activeChat.id = payload.id THEN payload ELSE s.activeChat]

UPDATE_CHAT(s, payload) ==
  LET updatedChat ==
        [payload EXCEPT !.lastMessage =
           IF payload.lastMessage # NoMsg THEN payload.lastMessage
           ELSE FindChat(s.chats, payload.id).lastMessage]
      otherChats == SelectSeq(s.chats, LAMBDA c : c.id # payload.id)
  IN [s EXCEPT !.chats = <<updatedChat>> \o otherChats,
               !.activeChat = IF s.activeChat.id = payload.id
                              THEN updatedChat ELSE s.activeChat]

UPDATE_CHAT_WITH_MESSAGE(s, chat, message) ==
  LET otherChats == SelectSeq(s.chats, LAMBDA c : c.id # chat.id)
      updatedChat == [chat EXCEPT !.lastMessage = message]
      existingMessages == s.messages[chat.id]
      messageExists == message \in Range(existingMessages)
  IN IF messageExists THEN s
     ELSE [s EXCEPT !.chats = <<updatedChat>> \o otherChats,
                    !.activeChat = IF s.activeChat.id = chat.id
                                   THEN updatedChat ELSE s.activeChat,
                    !.messages[chat.id] = Append(existingMessages, message)]

SET_MESSAGES(s, chatId, messages) == [s EXCEPT !.messages[chatId] = messages]

ADD_MESSAGE(s, chatId, message) ==
  [s EXCEPT !.messages[chatId] = Append(s.messages[chatId], message)]

SET_ERROR(s, e) == [s EXCEPT !.error = e]

SET_LOADING(s, b) == [s EXCEPT !.isLoading = b]

\* typingStatus[chatId] is read for its truth value: no entry reads as FALSE
SET_TYPING(s, chatId, isTyping) == [s EXCEPT !.typingStatus[chatId] = isTyping]

(***************************************************************************)
(* Backend: getChats and getMessages of the chat controller.               *)
(***************************************************************************)
ExistingChats == {c \in ChatIds : srvChats[c].exists}

\* chats sorted by updatedAt, newest first, lastMessage populated
RECURSIVE SortChats(_)
SortChats(S) ==
  IF S = {} THEN <<>>
  ELSE LET c == CHOOSE x \in S :
                  \A y \in S : srvChats[y].updatedAt <= srvChats[x].updatedAt
       IN <<[id |-> c, lastMessage |-> srvChats[c].lastMessage]>>
          \o SortChats(S \ {c})

getChats == SortChats(ExistingChats)

\* the messages of a chat in creation order (one page holds them all here)
getMessages(chatId) ==
  LET all == SelectSeq(srvMsgs, LAMBDA m : m.chatId = chatId)
  IN [i \in 1..Len(all) |-> all[i].id]

(***************************************************************************)
(* Requests in flight.  A slot is idle, sent (not yet served), ok or fail  *)
(* (the response is on its way back).                                      *)
(***************************************************************************)
IdleMsgFetch == [phase |-> "idle", chatId |-> 0, body |-> <<>>]
IdleChatFetch == [phase |-> "idle", retry |-> 0, body |-> <<>>, error |-> NoErr,
                  delay |-> 0]
IdleSend == [phase |-> "idle", chatId |-> 0, msg |-> NoMsg]

FreeSlot(f) == CHOOSE i \in DOMAIN f : f[i].phase = "idle" /\ \A j \in DOMAIN f : j < i => f[j].phase # "idle"

HasFree(f) == \E i \in DOMAIN f : f[i].phase = "idle"

ErrNoToken == "No authentication token found"
ErrLoadChats == "Failed to load chats"
ErrAuth == "Authentication failed. Please log in again."
ErrLoadMessages == "Failed to fetch messages"
ErrSend == "Failed to send message"
ErrExhausted == "Unable to establish WebSocket connection. Please refresh the page."

(***************************************************************************)
(* loadChats: SET_LOADING, the token check, then fetchChats with up to     *)
(* maxRetries retries; on failure SET_ERROR and SET_CHATS []; finally      *)
(* SET_LOADING false.  LoadChatsCall is the synchronous part of a call:    *)
(* the reducer state and the request slot after it.                        *)
(***************************************************************************)
maxRetries == 3

LoadChatsCall(s, cf) ==
  IF ~token
  THEN [state |-> SET_LOADING(SET_CHATS(SET_ERROR(SET_LOADING(s, TRUE), ErrNoToken), <<>>), FALSE),
        chatFetch |-> cf]
  ELSE [state |-> SET_LOADING(s, TRUE),
        chatFetch |-> [cf EXCEPT !.phase = "sent", !.retry = 0, !.body = <<>>]]

LoadChatsStart ==
  /\ ops < MaxOps
  /\ ops' = ops + 1
  /\ chatFetch.phase = "idle"
  /\ LET r == LoadChatsCall(state, chatFetch)
     IN /\ state' = r.state
        /\ chatFetch' = r.chatFetch
  /\ UNCHANGED <<currentStateRef, token, msgFetch, sendReq, pushQ,
                 srvChats, srvMsgs, clock, notChatVars>>

ServeChatsOk ==
  /\ chatFetch.phase = "sent"
  /\ chatFetch' = [chatFetch EXCEPT !.phase = "ok", !.body = getChats]
  /\ UNCHANGED <<state, currentStateRef, token, msgFetch, sendReq, pushQ, srvChats, srvMsgs, clock, ops, notChatVars>>

\* the response is not ok: 401, or any other status
ServeChatsFail(error) ==
  /\ chatFetch.phase = "sent"
  /\ chatFetch' = [chatFetch EXCEPT !.phase = "fail", !.error = error]
  /\ UNCHANGED <<state, currentStateRef, token, msgFetch, sendReq, pushQ, srvChats, srvMsgs, clock, ops, notChatVars>>

LoadChatsOk ==
  /\ chatFetch.phase = "ok"
  /\ state' = SET_LOADING(SET_CHATS(state, chatFetch.body), FALSE)
  /\ chatFetch' = IdleChatFetch
  /\ UNCHANGED <<currentStateRef, token, msgFetch, sendReq, pushQ,
                 srvChats, srvMsgs, clock, ops, notChatVars>>

\* the catch of fetchChats with retryCount <= maxRetries for its test
LoadChatsFailRetrying ==
  /\ chatFetch.phase = "fail"
  /\ IF chatFetch.retry <= maxRetries
     THEN /\ chatFetch' = [chatFetch EXCEPT !.phase = "wait",
                                            !.delay = 1 * Pow2(chatFetch.retry)]
          /\ state' = state
     ELSE /\ chatFetch' = IdleChatFetch
          /\ state' = SET_LOADING(SET_CHATS(SET_ERROR(state, chatFetch.error), <<>>), FALSE)
  /\ UNCHANGED <<currentStateRef, token, msgFetch, sendReq, pushQ,
                 srvChats, srvMsgs, clock, ops, notChatVars>>

\* the catch of fetchChats: wait 1000 * 2^retryCount ms (counted in seconds)
\* and retry, or give up: the catch and the finally of loadChats
LoadChatsFail ==
  /\ chatFetch.phase = "fail"
  /\ IF chatFetch.retry < maxRetries
     THEN /\ chatFetch' = [chatFetch EXCEPT !.phase = "wait",
                                            !.delay = 1 * Pow2(chatFetch.retry)]
          /\ state' = state
     ELSE /\ chatFetch' = IdleChatFetch
          /\ state' = SET_LOADING(SET_CHATS(SET_ERROR(state, chatFetch.error), <<>>), FALSE)
  /\ UNCHANGED <<currentStateRef, token, msgFetch, sendReq, pushQ,
                 srvChats, srvMsgs, clock, ops, notChatVars>>

\* the timer of the wait fires: fetchChats(retryCount + 1)
LoadChatsRetry ==
  /\ chatFetch.phase = "wait"
  /\ chatFetch' = [chatFetch EXCEPT !.phase = "sent", !.retry = @ + 1, !.delay = 0,
                                    !.error = NoErr]
  /\ UNCHANGED <<state, currentStateRef, token, msgFetch, sendReq, pushQ, srvChats, srvMsgs, clock, ops, notChatVars>>

(***************************************************************************)
(* loadMessages(chatId), called by the effects that follow the active chat.*)
(***************************************************************************)
SetActiveChat(i) ==
  /\ i \in 1..Len(state.chats)
  /\ state.chats[i].id # state.activeChat.id
  /\ state' = SET_ACTIVE_CHAT(state, state.chats[i])
  /\ UNCHANGED <<currentStateRef, token, msgFetch, chatFetch, sendReq, pushQ, srvChats, srvMsgs, clock, ops, notChatVars>>

LoadMessagesStart ==
  /\ ops < MaxOps
  /\ ops' = ops + 1
  /\ state.activeChat.id # 0
  /\ HasFree(msgFetch)
  /\ state' = SET_LOADING(state, TRUE)
  /\ msgFetch' = [msgFetch EXCEPT ![FreeSlot(msgFetch)] =
                    [phase |-> "sent", chatId |-> state.activeChat.id, body |-> <<>>]]
  /\ UNCHANGED <<currentStateRef, token, chatFetch, sendReq, pushQ,
                 srvChats, srvMsgs, clock, notChatVars>>

ServeMessagesOk(i) ==
  /\ msgFetch[i].phase = "sent"
  /\ msgFetch' = [msgFetch EXCEPT ![i].phase = "ok",
                                  ![i].body = getMessages(msgFetch[i].chatId)]
  /\ UNCHANGED <<state, currentStateRef, token, chatFetch, sendReq, pushQ, srvChats, srvMsgs, clock, ops, notChatVars>>

ServeMessagesFail(i) ==
  /\ msgFetch[i].phase = "sent"
  /\ msgFetch' = [msgFetch EXCEPT ![i].phase = "fail"]
  /\ UNCHANGED <<state, currentStateRef, token, chatFetch, sendReq, pushQ, srvChats, srvMsgs, clock, ops, notChatVars>>

LoadMessagesOk(i) ==
  /\ msgFetch[i].phase = "ok"
  /\ state' = SET_LOADING(SET_MESSAGES(state, msgFetch[i].chatId, msgFetch[i].body), FALSE)
  /\ msgFetch' = [msgFetch EXCEPT ![i] = IdleMsgFetch]
  /\ UNCHANGED <<currentStateRef, token, chatFetch, sendReq, pushQ,
                 srvChats, srvMsgs, clock, ops, notChatVars>>

LoadMessagesFail(i) ==
  /\ msgFetch[i].phase = "fail"
  /\ state' = SET_LOADING(SET_ERROR(SET_MESSAGES(state, msgFetch[i].chatId, <<>>),
                                    ErrLoadMessages), FALSE)
  /\ msgFetch' = [msgFetch EXCEPT ![i] = IdleMsgFetch]
  /\ UNCHANGED <<currentStateRef, token, chatFetch, sendReq, pushQ,
                 srvChats, srvMsgs, clock, ops, notChatVars>>

(***************************************************************************)
(* Backend sendMessage (POST /chats/:chatId/messages) for sender u: the    *)
(* message is created with the next id and the server's time, and becomes  *)
(* the chat's lastMessage.                                                 *)
(***************************************************************************)
NewMsg(chatId, u) ==
  [id |-> Len(srvMsgs) + 1, chatId |-> chatId, sender |-> u, createdAt |-> clock]

PersistMessage(chatId, u) ==
  /\ srvMsgs' = Append(srvMsgs, NewMsg(chatId, u))
  /\ srvChats' = [srvChats EXCEPT ![chatId].lastMessage = Len(srvMsgs) + 1,
                                  ![chatId].updatedAt = clock]
  /\ clock' = clock + 1

(***************************************************************************)
(* MessageInput and sendMessage(chatId, content) of the provider.  The     *)
(* input holds no text or some text; handleSubmit calls onSend, which      *)
(* calls sendMessage for the active chat, and awaits it.                   *)
(***************************************************************************)
NoText == ""
Text == "text"

\* how the promise of sendMessage ends for its caller
Fulfilled == "fulfilled with undefined"

\* handleChange: SET_VALUE
HandleChange(value) ==
  /\ value # inputValue
  /\ inputValue' = value
  /\ UNCHANGED <<chatVars, srvVars, backVars, mgrVars, pageVars, connVars, typingVars, sendResult>>

\* handleSubmit with some text in the input: onSend -> sendMessage, up to
\* the await of the POST
SendMessageStart ==
  /\ ops < MaxOps
  /\ ops' = ops + 1
  /\ inputValue # NoText
  /\ state.activeChat.id # 0
  /\ HasFree(sendReq)
  /\ sendReq' = [sendReq EXCEPT ![FreeSlot(sendReq)] =
                   [phase |-> "sent", chatId |-> state.activeChat.id, msg |-> NoMsg]]
  /\ UNCHANGED <<state, currentStateRef, token, msgFetch, chatFetch, pushQ, srvChats, srvMsgs, clock, notChatVars>>

\* the controller creates the message; the sender gets no push event for it
ServeSendOk(i) ==
  /\ sendReq[i].phase = "sent"
  /\ srvChats[sendReq[i].chatId].exists
  /\ Len(srvMsgs) < MaxMsgs
  /\ PersistMessage(sendReq[i].chatId, Me)
  /\ sendReq' = [sendReq EXCEPT ![i].phase = "ok", ![i].msg = Len(srvMsgs) + 1]
  /\ UNCHANGED <<state, currentStateRef, token, msgFetch, chatFetch, pushQ, ops, notChatVars>>

\* 404, 500 or no network
ServeSendFail(i) ==
  /\ sendReq[i].phase = "sent"
  /\ sendReq' = [sendReq EXCEPT ![i].phase = "fail"]
  /\ UNCHANGED <<state, currentStateRef, token, msgFetch, chatFetch, pushQ, srvChats, srvMsgs, clock, ops, notChatVars>>

\* "Update local state first": ADD_MESSAGE and UPDATE_CHAT when the chat is
\* in currentStateRef.current.chats
SendMessageUpdate(s, ref, chatId, m) ==
  LET existingChat == FindChat(ref.chats, chatId)
  IN IF existingChat.id # 0
     THEN UPDATE_CHAT(ADD_MESSAGE(s, chatId, m), [existingChat EXCEPT !.lastMessage = m])
     ELSE s

(***************************************************************************)
(* Another session sends a message in chat c: the peer, or the same user   *)
(* from another device.  The message is created by the controller and k    *)
(* message events for it reach this client (the service listens under the  *)
(* names message, newMessage and messageReceived).                         *)
(***************************************************************************)
RemoteSend(c, u, k) ==
  /\ ops < MaxOps
  /\ ops' = ops + 1
  /\ srvChats[c].exists
  /\ Len(srvMsgs) < MaxMsgs
  /\ PersistMessage(c, u)
  /\ pushQ' = pushQ \o [i \in 1..k |-> [type |-> "message", id |-> Len(srvMsgs) + 1]]
  /\ UNCHANGED <<state, currentStateRef, token, msgFetch, chatFetch, sendReq, notChatVars>>

(***************************************************************************)
(* The provider's onMessage handler (it reads currentStateRef.current).    *)
(***************************************************************************)
\* OnMessage without the "Skipping own message" return
OnMessageOwnKept(s, ref, cf, m) ==
  LET chatId == srvMsgs[m].chatId
      existingChat == FindChat(ref.chats, chatId)
      messageExists == m \in Range(ref.messages[chatId])
  IN IF messageExists THEN [state |-> s, chatFetch |-> cf]
     ELSE IF existingChat.id = 0 THEN LoadChatsCall(s, cf)
     ELSE [state |-> UPDATE_CHAT(ADD_MESSAGE(s, chatId, m),
                                 [existingChat EXCEPT !.lastMessage = m]),
           chatFetch |-> cf]

OnMessage(s, ref, cf, m) ==
  LET chatId == srvMsgs[m].chatId
      existingChat == FindChat(ref.chats, chatId)
      messageExists == m \in Range(ref.messages[chatId])
  IN IF srvMsgs[m].sender = Me THEN [state |-> s, chatFetch |-> cf]
     ELSE IF messageExists THEN [state |-> s, chatFetch |-> cf]
     ELSE IF existingChat.id = 0 THEN LoadChatsCall(s, cf)
     ELSE [state |-> UPDATE_CHAT(ADD_MESSAGE(s, chatId, m),
                                 [existingChat EXCEPT !.lastMessage = m]),
           chatFetch |-> cf]

\* a message for a chat the list does not hold calls loadChats: the event
\* waits while the one modelled loadChats call is in flight
DeliverMessage(m) ==
  /\ pushQ # <<>>
  /\ Head(pushQ) = [type |-> "message", id |-> m]
  /\ \/ chatFetch.phase = "idle"
     \/ srvMsgs[m].sender = Me
     \/ m \in Range(currentStateRef.messages[srvMsgs[m].chatId])
     \/ FindChat(currentStateRef.chats, srvMsgs[m].chatId).id # 0
  /\ LET r == OnMessage(state, currentStateRef, chatFetch, m)
     IN /\ state' = r.state
        /\ chatFetch' = r.chatFetch
  /\ pushQ' = Tail(pushQ)
  /\ UNCHANGED <<currentStateRef, token, msgFetch, sendReq,
                 srvChats, srvMsgs, clock, ops, notChatVars>>

(***************************************************************************)
(* Backend createChat as this client sees it: the chat appears in the      *)
(* collection; a chat:new event goes to the participant who did not create *)
(* it (k = 1: this client, connected; k = 0: created by this user, or this *)
(* client was not connected).                                              *)
(***************************************************************************)
CreateChat(c, k) ==
  /\ ops < MaxOps
  /\ ops' = ops + 1
  /\ ~srvChats[c].exists
  /\ srvChats' = [srvChats EXCEPT ![c] = [exists |-> TRUE, lastMessage |-> NoMsg,
                                          createdAt |-> clock,
                                          updatedAt |-> clock]]
  /\ clock' = clock + 1
  /\ pushQ' = pushQ \o [i \in 1..k |-> [type |-> "chat:new", id |-> c]]
  /\ UNCHANGED <<state, currentStateRef, token, msgFetch, chatFetch, sendReq,
                 srvMsgs, notChatVars>>

\* the provider's onNewChat handler
OnNewChat(s, c) == ADD_CHAT(s, [id |-> c, lastMessage |-> NoMsg])

DeliverNewChat(c) ==
  /\ pushQ # <<>>
  /\ Head(pushQ) = [type |-> "chat:new", id |-> c]
  /\ state' = OnNewChat(state, c)
  /\ pushQ' = Tail(pushQ)
  /\ UNCHANGED <<currentStateRef, token, msgFetch, chatFetch, sendReq,
                 srvChats, srvMsgs, clock, ops, notChatVars>>

\* useEffect(() => { currentStateRef.current = state }, [state])
SyncStateRef ==
  /\ currentStateRef # RefOf(state)
  /\ currentStateRef' = RefOf(state)
  /\ UNCHANGED <<state, token, msgFetch, chatFetch, sendReq, pushQ,
                 srvChats, srvMsgs, clock, ops, notChatVars>>

(***************************************************************************)
(* SpecChat                                                                *)
(***************************************************************************)
ChatInit ==
  /\ state = initialState
  /\ currentStateRef = RefOf(initialState)
  /\ msgFetch = [i \in 1..MaxMsgFetch |-> IdleMsgFetch]
  /\ chatFetch = IdleChatFetch
  /\ sendReq = [i \in 1..1 |-> IdleSend]
  /\ pushQ = <<>>
  /\ srvChats = [c \in ChatIds |-> [exists |-> (c = 1), lastMessage |-> NoMsg,
                                  createdAt |-> 0, updatedAt |-> 0]]
  /\ srvMsgs = <<>>
  /\ clock = 1
  /\ ops = 0
  /\ inputValue = NoText
  /\ sendResult = "none"

(***************************************************************************)
(* Backend createChat (POST /chats).  A request is handled in steps, each  *)
(* await of the controller ending one: the findOne query, then save with   *)
(* the notification and the response.  Requests interleave at the awaits.  *)
(***************************************************************************)
Users == {"A", "B", "C"}
Missing == <<"missing">>

\* req.body.participants: absent, or an array of one or two user ids
Bodies == {Missing} \cup {<<u>> : u \in Users} \cup {<<u, v>> : u, v \in Users}

IdleReq == [pc |-> "idle", user |-> "A", participants |-> Missing, isGroup |-> FALSE,
            status |-> 0, chat |-> 0]

SrvIdle ==
  /\ strictQuery = TRUE
  /\ requests = [r \in 1..MaxReq |-> IdleReq]
  /\ db = <<>>
  /\ emitted = <<>>

\* Chat.findOne({isGroup: false, participants: {$all: [user, p0], $size: 2}}):
\* the schema of models/Chat.ts has no isGroup path, so the stored documents
\* have none; the condition is dropped under strictQuery and matches no
\* document otherwise
Matches(doc, user, p0) ==
  /\ strictQuery
  /\ Len(doc.participants) = 2
  /\ {user, p0} \subseteq Range(doc.participants)

findOne(user, p0) ==
  IF \E i \in 1..Len(db) : Matches(db[i], user, p0)
  THEN CHOOSE i \in 1..Len(db) :
         Matches(db[i], user, p0) /\ \A j \in 1..(i - 1) : ~Matches(db[j], user, p0)
  ELSE 0

\* the request arrives: the participants check, then the controller awaits
\* findOne (direct chat) or goes on to create the chat (group)
CreateChatArrive(u, body, g) ==
  /\ HasFree([r \in 1..MaxReq |-> [phase |-> requests[r].pc]])
  /\ LET r == CHOOSE i \in 1..MaxReq :
                requests[i].pc = "idle" /\ \A j \in 1..(i - 1) : requests[j].pc # "idle"
         req == [IdleReq EXCEPT !.user = u, !.participants = body, !.isGroup = g]
     IN requests' = [requests EXCEPT ![r] =
          IF body = Missing THEN [req EXCEPT !.pc = "done", !.status = 400]
          ELSE IF ~g THEN [req EXCEPT !.pc = "find"]
          ELSE [req EXCEPT !.pc = "save"]]
  /\ UNCHANGED <<strictQuery, db, emitted, notSrvVars>>

\* findOne returns: respond with the existing chat, or go on to create one
CreateChatFound(r) ==
  /\ requests[r].pc = "find"
  /\ LET existingChat == findOne(requests[r].user, requests[r].participants[1])
     IN requests' = [requests EXCEPT ![r] =
          IF existingChat # 0
          THEN [@ EXCEPT !.pc = "done", !.status = 200, !.chat = existingChat]
          ELSE [@ EXCEPT !.pc = "save"]]
  /\ UNCHANGED <<strictQuery, db, emitted, notSrvVars>>

\* new Chat(...).save(): the pre-save hook wants exactly two participants;
\* then chat:new goes to every participant but the creator, and 201
NewChatParticipants(req) ==
  IF req.isGroup THEN <<req.user>> \o req.participants
  ELSE <<req.user, req.participants[1]>>

\* CreateChatSave with a schema that has no pre-save hook
CreateChatSaveUnchecked(r) ==
  /\ requests[r].pc = "save"
  /\ LET ps == NewChatParticipants(requests[r])
         id == Len(db) + 1
         rooms == SelectSeq(ps, LAMBDA p : p # requests[r].user)
     IN /\ db' = Append(db, [id |-> id, participants |-> ps])
        /\ emitted' = emitted \o [i \in 1..Len(rooms) |-> <<rooms[i], id>>]
        /\ requests' = [requests EXCEPT ![r].pc = "done", ![r].status = 201,
                                        ![r].chat = id]
  /\ UNCHANGED <<strictQuery, notSrvVars>>

CreateChatSave(r) ==
  /\ requests[r].pc = "save"
  /\ LET ps == NewChatParticipants(requests[r])
         id == Len(db) + 1
         rooms == SelectSeq(ps, LAMBDA p : p # requests[r].user)
     IN IF Len(ps) # 2
        THEN /\ requests' = [requests EXCEPT ![r].pc = "done", ![r].status = 500]
             /\ UNCHANGED <<db, emitted>>
        ELSE /\ db' = Append(db, [id |-> id, participants |-> ps])
             /\ emitted' = emitted \o [i \in 1..Len(rooms) |-> <<rooms[i], id>>]
             /\ requests' = [requests EXCEPT ![r].pc = "done", ![r].status = 201,
                                             ![r].chat = id]
  /\ UNCHANGED <<strictQuery, notSrvVars>>

SrvInit ==
  /\ strictQuery \in BOOLEAN
  /\ requests = [r \in 1..MaxReq |-> IdleReq]
  /\ db = <<>>
  /\ emitted = <<>>

(***************************************************************************)
(* SocketIOChatService.  conn[i] is the i-th promise made by connect():    *)
(*   promise      pending, resolved, or the error it was rejected with     *)
(*   sock         the socket created for it: none, connecting, open, closed*)
(*   wait         waitForConnection is pending (its timeout is armed)      *)
(*   onceConnect  the once("connect") listener is still on the socket      *)
(*   handlers     the listeners of setupConnectionStateHandlers are on it  *)
(*   subs         per event, the listeners on it that wrap a handler of    *)
(*                the provider's running effect (one whose isSubscribed is *)
(*                still true)                                              *)
(*   thenMessage  onMessage calls waiting for this promise to attach       *)
(* A slot that nothing refers to any more is given back (Release).         *)
(* The operators below take and return a record w of the fields a call     *)
(* touches, so that a handler is the composition of the calls it makes;    *)
(* w.ret is the promise a connect() returned (0: Promise.resolve()) and    *)
(* w.ok is FALSE when the call needs more slots or timers than the bounds. *)
(***************************************************************************)
maxReconnectAttempts == 5
reconnectDelay == 1
MAX_RECONNECT_ATTEMPTS == 5
MaxDelay == 30

ErrTimeout == "Connection timeout"
ErrConnect == "connect_error"

NoSubs == [message |-> 0, typing |-> 0, chat |-> 0]

FreeConn == [promise |-> "none", sock |-> "none", wait |-> FALSE,
             onceConnect |-> FALSE, handlers |-> FALSE, subs |-> NoSubs,
             thenMessage |-> 0]

NewSvc == [socket |-> 0, reconnectAttempts |-> 0, reconnectDelay |-> reconnectDelay,
           isConnecting |-> FALSE, connectionPromise |-> 0, gaveUp |-> FALSE]

Unmounted == [pc |-> "unmounted", promise |-> 0, reconnectAttemptsRef |-> 0,
              delay |-> 0, fails |-> 0, stale |-> {}, resynced |-> FALSE]

World == [svc |-> svc, conn |-> conn, timers |-> timers, prov |-> prov,
          state |-> state, chatFetch |-> chatFetch, userClosed |-> userClosed,
          typingTimeoutsRef |-> typingTimeoutsRef, typingTimers |-> typingTimers,
          ret |-> 0, ok |-> TRUE]

isConnected(w) == w.svc.socket # 0 /\ w.conn[w.svc.socket].sock = "open"

Live(c) == c.sock \in {"connecting", "open"}

PromiseOf(w, p) == IF p = 0 THEN "resolved" ELSE w.conn[p].promise

\* connect()
Connect(w) ==
  LET free == {i \in 1..MaxConn : w.conn[i] = FreeConn}
      i == CHOOSE x \in free : \A y \in free : x <= y
      seen(v, p) == [v EXCEPT !.ret = p]
  IN IF w.svc.connectionPromise # 0 THEN seen(w, w.svc.connectionPromise)
     ELSE IF isConnected(w) THEN seen(w, 0)
     ELSE IF free = {} THEN [w EXCEPT !.ok = FALSE]
     ELSE IF ~token
     THEN seen([w EXCEPT !.svc.isConnecting = FALSE,
                         !.svc.connectionPromise = i,
                         !.conn[i].promise = ErrNoToken], i)
     ELSE seen([w EXCEPT !.svc.isConnecting = TRUE,
                         !.svc.socket = i,
                         !.svc.connectionPromise = i,
                         !.conn[i] = [FreeConn EXCEPT !.promise = "pending",
                                                      !.sock = "connecting",
                                                      !.wait = TRUE,
                                                      !.onceConnect = TRUE]], i)

\* ensureConnected(), as called by onMessage, sendMessage and joinChat
EnsureConnected(w) == IF isConnected(w) THEN w ELSE Connect(w)

\* socket.on(event, ...) on this.socket, as the three registration methods
\* do it: the off() before it is given the new closure and removes nothing
Attach(w, event) ==
  IF w.svc.socket = 0 THEN w
  ELSE [w EXCEPT !.conn[w.svc.socket].subs[event] = @ + 1]

\* onMessage(handler): attaches once ensureConnected() has resolved
onMessage(w) ==
  LET v == EnsureConnected(w)
      p == PromiseOf(v, v.ret)
  IN IF ~v.ok THEN v
     ELSE IF p = "resolved" THEN Attach(v, "message")
     ELSE IF p = "pending" THEN [v EXCEPT !.conn[v.ret].thenMessage = @ + 1]
     ELSE v

\* onTyping(handler), onNewChat(handler): a warning and nothing else when
\* there is no socket
onTyping(w) == Attach(w, "typing")

onNewChat(w) == Attach(w, "chat")

\* the delay attemptReconnect computes
Delay(s) == s.reconnectDelay * Pow2(s.reconnectAttempts)

\* attemptReconnect(): gives up with a log line (gaveUp), or arms a timer
\* that fires after Delay(w.svc); the counter moves when the timer fires
\* (SvcTimerFire).  Time is not modelled: pending timers fire in any order.
AttemptReconnect(w) ==
  IF w.svc.reconnectAttempts >= maxReconnectAttempts
  THEN [w EXCEPT !.svc.gaveUp = TRUE]
  ELSE IF w.timers >= MaxTimers THEN [w EXCEPT !.ok = FALSE]
  ELSE [w EXCEPT !.timers = @ + 1]

\* the disconnect / connect_error / error listeners of
\* setupConnectionStateHandlers
OnFailure(w) == AttemptReconnect([w EXCEPT !.svc.isConnecting = FALSE])

\* disconnect()
Disconnect(w) ==
  IF w.svc.socket = 0 THEN [w EXCEPT !.userClosed = TRUE]
  ELSE LET s == w.svc.socket
           heard == w.conn[s].sock = "open" /\ w.conn[s].handlers
       IN [w EXCEPT !.conn[s].sock = "closed",
                    !.svc.socket = 0,
                    !.svc.connectionPromise = 0,
                    !.svc.isConnecting = IF heard THEN FALSE ELSE @,
                    !.userClosed = TRUE]

(***************************************************************************)
(* The provider's setupWebSocket: what follows await wsService.connect().  *)
(***************************************************************************)
\* the try block after the await
ProvConnected(w) ==
  LET v == onNewChat(onTyping(onMessage([w EXCEPT !.prov.reconnectAttemptsRef = 0,
                                                  !.prov.fails = 0])))
      r == LoadChatsCall(v.state, v.chatFetch)
  IN [v EXCEPT !.prov.pc = "connected", !.prov.promise = 0,
               !.prov.resynced = TRUE,
               !.state = r.state, !.chatFetch = r.chatFetch]

\* the catch block (isSubscribed holds for the mounted provider's chain)
ProvFailed(w) ==
  IF w.prov.reconnectAttemptsRef < MAX_RECONNECT_ATTEMPTS
  THEN [w EXCEPT !.prov.pc = "timer", !.prov.promise = 0,
                 !.prov.delay = Min(1 * Pow2(w.prov.reconnectAttemptsRef), MaxDelay),
                 !.prov.fails = @ + 1]
  ELSE [w EXCEPT !.prov.pc = "exhausted", !.prov.promise = 0,
                 !.prov.fails = @ + 1,
                 !.state = SET_ERROR(w.state, ErrExhausted)]

SetupWebSocket(w) ==
  LET v == [Connect(w) EXCEPT !.userClosed = FALSE]
      p == PromiseOf(v, v.ret)
  IN IF ~v.ok THEN v
     ELSE IF p = "pending" THEN [v EXCEPT !.prov.pc = "await", !.prov.promise = v.ret]
     ELSE IF p = "resolved" THEN ProvConnected(v)
     ELSE ProvFailed(v)

\* the promise of conn[i] settles: connect()'s code after the await, then
\* the provider's if it awaits this promise
\* A setupWebSocket chain whose effect has been cleaned up (isSubscribed is
\* false) still runs when the promise it awaits settles: the line after the
\* await resets reconnectAttemptsRef before isSubscribed is read, and the
\* catch block reads isSubscribed only in its first branch.
StaleConnected(w, i) ==
  IF i \in w.prov.stale
  THEN [w EXCEPT !.prov.stale = @ \ {i}, !.prov.reconnectAttemptsRef = 0,
                 !.prov.fails = 0]
  ELSE w

StaleFailed(w, i) ==
  IF i \in w.prov.stale
  THEN [w EXCEPT !.prov.stale = @ \ {i},
                 !.state = IF w.prov.reconnectAttemptsRef >= MAX_RECONNECT_ATTEMPTS
                           THEN SET_ERROR(w.state, ErrExhausted) ELSE @]
  ELSE w

Resolve(w, i) ==
  LET a == IF w.svc.socket = 0 THEN w
           ELSE [w EXCEPT !.conn[w.svc.socket].handlers = TRUE,
                          !.conn[w.svc.socket].subs.message =
                              @ + w.conn[i].thenMessage]
      b == StaleConnected([a EXCEPT !.conn[i].promise = "resolved",
                                    !.conn[i].wait = FALSE,
                                    !.conn[i].thenMessage = 0], i)
  IN IF b.prov.pc = "await" /\ b.prov.promise = i THEN ProvConnected(b) ELSE b

Reject(w, i, error) ==
  LET b == StaleFailed([w EXCEPT !.conn[i].promise = error, !.conn[i].wait = FALSE,
                                 !.conn[i].thenMessage = 0,
                                 !.svc.isConnecting = FALSE,
                                 !.svc.connectionPromise = 0], i)
  IN IF b.prov.pc = "await" /\ b.prov.promise = i THEN ProvFailed(b) ELSE b

\* clearTimeout(id)
ClearTimeout(pending, id) == {t \in pending : t.id # id}

\* Object.values(typingTimeoutsRef.current).forEach(clearTimeout)
ClearTypingTimeouts(pending, ref) == {t \in pending : \A c \in ChatIds : ref[c] # t.id}

NoTypingTimeouts == [c \in ChatIds |-> 0]

\* the effect's cleanup: isSubscribed = false, clearTimeout of the pending
\* retry and of the typing timers, typingTimeoutsRef.current = {},
\* disconnect(); the other refs and the reducer state stay as they are
Cleanup(w) ==
  Disconnect([w EXCEPT !.prov.pc = "unmounted", !.prov.promise = 0, !.prov.delay = 0,
                       !.typingTimers =
                           {[t EXCEPT !.isSubscribed = FALSE] :
                              t \in ClearTypingTimeouts(@, w.typingTimeoutsRef)},
                       !.typingTimeoutsRef = NoTypingTimeouts,
                       !.prov.resynced = FALSE,
                       !.prov.stale = IF w.prov.pc = "await"
                                      THEN @ \cup {w.prov.promise} ELSE @,
                       !.conn = [i \in 1..MaxConn |->
                                   [w.conn[i] EXCEPT !.subs = NoSubs,
                                                     !.thenMessage = 0]]])

\* what can no longer matter is forgotten: a settled promise that is not
\* the cached connectionPromise, the listeners of a closed socket, and the
\* whole slot once its socket is gone and unreferenced
Release(w) ==
  [w EXCEPT !.conn = [i \in 1..MaxConn |->
     LET c == w.conn[i]
         gone == c.sock \in {"none", "closed"}
         kept == c.promise = "pending" \/ w.svc.connectionPromise = i
     IN IF gone /\ ~c.wait /\ ~kept /\ w.svc.socket # i THEN FreeConn
        ELSE [c EXCEPT !.promise = IF kept THEN @ ELSE "none",
                       !.onceConnect = IF gone THEN FALSE ELSE @,
                       !.handlers = IF gone THEN FALSE ELSE @,
                       !.subs = IF gone THEN NoSubs ELSE @]]]

Commit(w) ==
  LET v == Release(w)
  IN /\ w.ok
     /\ svc' = v.svc
     /\ conn' = v.conn
     /\ timers' = v.timers
     /\ prov' = v.prov
     /\ state' = v.state
     /\ chatFetch' = v.chatFetch
     /\ userClosed' = v.userClosed
     /\ typingTimeoutsRef' = v.typingTimeoutsRef
     /\ typingTimers' = v.typingTimers

(***************************************************************************)
(* Events of the transport (socket.io).  The Manager is created with       *)
(* reconnection: true, so a socket whose connection fails or drops goes on *)
(* trying by itself until the Manager gives up or the socket is closed.    *)
(***************************************************************************)
connRest == <<token, isAuthenticated, notConnVars>>

\* "connect" on socket i: the once listener of waitForConnection, if it is
\* still there, then whatever awaits
SockConnectOk(i) ==
  /\ conn[i].sock = "connecting"
  /\ LET w0 == [World EXCEPT !.conn[i].sock = "open"]
         w1 == [w0 EXCEPT !.svc.isConnecting = FALSE,
                          !.svc.reconnectAttempts = 0,
                          !.svc.gaveUp = FALSE,
                          !.conn[i].onceConnect = FALSE]
     IN Commit(IF ~conn[i].onceConnect THEN w0
               ELSE IF conn[i].wait THEN Resolve(w1, i)
               ELSE w1)
  /\ UNCHANGED connRest

\* "connect_error" on socket i; the Manager retries, or has given up
SockConnectError(i, giveUp) ==
  /\ conn[i].sock = "connecting"
  /\ LET w0 == [World EXCEPT !.conn[i].sock = IF giveUp THEN "closed" ELSE @]
         w1 == IF conn[i].wait THEN Reject(w0, i, ErrConnect) ELSE w0
     IN Commit(IF conn[i].handlers THEN OnFailure(w1) ELSE w1)
  /\ UNCHANGED connRest

\* "disconnect" with reason "transport close" or "ping timeout"
SockDrop(i) ==
  /\ conn[i].sock = "open"
  /\ LET w0 == [World EXCEPT !.conn[i].sock = "connecting",
                             !.prov.resynced = IF svc.socket = i THEN FALSE ELSE @]
     IN Commit(IF conn[i].handlers THEN OnFailure(w0) ELSE w0)
  /\ UNCHANGED connRest

\* "disconnect" with reason "io server disconnect": no retry by the Manager
SockServerDisconnect(i) ==
  /\ conn[i].sock = "open"
  /\ LET w0 == [World EXCEPT !.conn[i].sock = "closed",
                             !.prov.resynced = IF svc.socket = i THEN FALSE ELSE @]
     IN Commit(IF conn[i].handlers THEN OnFailure(w0) ELSE w0)
  /\ UNCHANGED connRest

\* "error" on socket i
SockError(i) ==
  /\ Live(conn[i])
  /\ conn[i].handlers
  /\ Commit(OnFailure(World))
  /\ UNCHANGED connRest

\* the 10 s timeout of waitForConnection
WaitTimeout(i) ==
  /\ conn[i].wait
  /\ Commit(Reject(World, i, ErrTimeout))
  /\ UNCHANGED connRest

\* a timer of attemptReconnect fires: reconnectAttempts++, connect()
SvcTimerFire ==
  /\ timers > 0
  /\ Commit(Connect([World EXCEPT !.timers = @ - 1,
                                  !.svc.reconnectAttempts = @ + 1]))
  /\ UNCHANGED connRest

\* reconnectTimeoutRef fires: reconnectAttemptsRef.current++, setupWebSocket()
ProvTimerFire ==
  /\ prov.pc = "timer"
  /\ Commit(SetupWebSocket([World EXCEPT !.prov.reconnectAttemptsRef = @ + 1,
                                         !.prov.delay = 0]))
  /\ UNCHANGED connRest

(***************************************************************************)
(* The user.  ChatProvider wraps the routes of the application (App.tsx):  *)
(* its reducer state and refs live as long as the page.  Its WebSocket     *)
(* effect runs when authState.isAuthenticated becomes true and is cleaned  *)
(* up when it becomes false.                                               *)
(***************************************************************************)
\* login, register, or initializeAuth with a stored token: setAuthData,
\* AUTH_SUCCESS
Login ==
  /\ ~isAuthenticated
  /\ ops < MaxLogins
  /\ ops' = ops + 1
  /\ token' = TRUE
  /\ isAuthenticated' = TRUE
  /\ UNCHANGED <<svc, conn, timers, prov, state, chatFetch, userClosed,
                 currentStateRef, msgFetch, sendReq, pushQ, srvChats, srvMsgs, clock,
                 srvVars, backVars, mgrVars, pageVars, typingVars, sendVars>>

\* the effect runs (after the render that follows AUTH_SUCCESS)
Mount ==
  /\ isAuthenticated
  /\ prov.pc = "unmounted"
  /\ Commit(SetupWebSocket([World EXCEPT !.prov.pc = "setup"]))
  /\ UNCHANGED connRest

\* logout(): clearAuthData, AUTH_LOGOUT; the effect's cleanup runs
Logout ==
  /\ isAuthenticated
  /\ token' = FALSE
  /\ isAuthenticated' = FALSE
  /\ Commit(IF prov.pc # "unmounted" THEN Cleanup(World) ELSE World)
  /\ UNCHANGED notConnVars

\* wsService.joinChat (the active-chat effect) or wsService.sendMessage ->
\* ensureConnected; a chat is active only once the chat list has been loaded,
\* which setupWebSocket does after its connect() has succeeded
JoinChat ==
  /\ prov.pc = "connected"
  /\ ~isConnected(World)
  /\ Commit([Connect(World) EXCEPT !.userClosed = FALSE])
  /\ UNCHANGED connRest

(***************************************************************************)
(* sendMessage of the provider after the POST has been answered, with the  *)
(* code of handleSubmit that follows its await.                            *)
(***************************************************************************)
\* SocketIOChatService.sendMessage: ensureConnected(), then the emits if
\* the service is connected (they change nothing here)
sendMessage(w) ==
  IF isConnected(w) THEN w ELSE [Connect(w) EXCEPT !.userClosed = FALSE]

\* the POST has succeeded: the local update, wsService.sendMessage, and the
\* promise is fulfilled; handleSubmit clears the input
SendMessageOk(i) ==
  /\ sendReq[i].phase = "ok"
  /\ Commit(sendMessage([World EXCEPT !.state =
              SendMessageUpdate(state, currentStateRef, sendReq[i].chatId,
                                sendReq[i].msg)]))
  /\ sendReq' = [sendReq EXCEPT ![i] = IdleSend]
  /\ sendResult' = Fulfilled
  /\ inputValue' = NoText
  /\ UNCHANGED <<currentStateRef, token, msgFetch, pushQ, srvChats, srvMsgs, clock, ops,
                 srvVars, backVars, mgrVars, pageVars, isAuthenticated, typingSeq, lastTyping>>

\* the POST has failed: the catch dispatches SET_ERROR and the promise is
\* fulfilled all the same; handleSubmit clears the input
SendMessageFail(i) ==
  /\ sendReq[i].phase = "fail"
  /\ state' = SET_ERROR(state, ErrSend)
  /\ sendReq' = [sendReq EXCEPT ![i] = IdleSend]
  /\ sendResult' = Fulfilled
  /\ inputValue' = NoText
  /\ UNCHANGED <<currentStateRef, token, msgFetch, chatFetch, pushQ,
                 srvChats, srvMsgs, clock, ops, srvVars, backVars, mgrVars, pageVars, connVars, typingVars>>

(***************************************************************************)
(* The typing indicator.  The handler the effect gives to onTyping, the    *)
(* timer it arms (3000 ms: time is counted in seconds, a timer that is due *)
(* fires before time moves on) and the typing events of the transport.     *)
(***************************************************************************)
TypingTTL == 3

NoTyping == [chatId |-> 0, isTyping |-> FALSE, userId |-> Me]

\* setTimeout returns an id that nothing else holds
NewTimeout(w) ==
  LET held == {t.id : t \in w.typingTimers}
                \cup {w.typingTimeoutsRef[c] : c \in ChatIds}
  IN 1 + CHOOSE x \in held : \A y \in held : y <= x

\* the handler without the return for the local user's own events
OnTypingOwnKept(w, chatId, isTyping, userId) ==
  LET old == w.typingTimeoutsRef[chatId]
      a == [w EXCEPT !.typingTimers = IF old # 0 THEN ClearTimeout(@, old) ELSE @,
                     !.state = SET_TYPING(@, chatId, isTyping)]
      id == NewTimeout(a)
  IN IF ~isTyping THEN a
     ELSE [a EXCEPT !.typingTimeoutsRef[chatId] = id,
                    !.typingTimers = @ \cup {[id |-> id, chatId |-> chatId,
                                              left |-> TypingTTL,
                                              isSubscribed |-> TRUE]}]

\* the handler without the clearTimeout of the chat's pending timer
OnTypingNoClear(w, chatId, isTyping, userId) ==
  LET a == [w EXCEPT !.state = SET_TYPING(@, chatId, isTyping)]
      id == NewTimeout(a)
  IN IF userId = Me THEN w
     ELSE IF ~isTyping THEN a
     ELSE [a EXCEPT !.typingTimeoutsRef[chatId] = id,
                    !.typingTimers = @ \cup {[id |-> id, chatId |-> chatId,
                                              left |-> TypingTTL,
                                              isSubscribed |-> TRUE]}]

\* the handler given to wsService.onTyping, for a listener whose
\* isSubscribed is true (the others return at once and are not counted in
\* subs)
OnTyping(w, chatId, isTyping, userId) ==
  LET old == w.typingTimeoutsRef[chatId]
      a == [w EXCEPT !.typingTimers = IF old # 0 THEN ClearTimeout(@, old) ELSE @,
                     !.state = SET_TYPING(@, chatId, isTyping)]
      id == NewTimeout(a)
  IN IF userId = Me THEN w
     ELSE IF ~isTyping THEN a
     ELSE [a EXCEPT !.typingTimeoutsRef[chatId] = id,
                    !.typingTimers = @ \cup {[id |-> id, chatId |-> chatId,
                                              left |-> TypingTTL,
                                              isSubscribed |-> TRUE]}]

\* socket.io calls the listeners of the event one after the other
RECURSIVE EmitTyping(_, _, _, _, _)
EmitTyping(w, n, chatId, isTyping, userId) ==
  IF n = 0 THEN w
  ELSE EmitTyping(OnTyping(w, chatId, isTyping, userId), n - 1, chatId, isTyping, userId)

\* a typing event arrives on socket i
TypingEvent(i, chatId, isTyping, userId) ==
  /\ typingSeq < MaxTyping
  /\ conn[i].sock = "open"
  /\ conn[i].subs.typing >= 1
  /\ typingSeq' = typingSeq + 1
  /\ lastTyping' = [chatId |-> chatId, isTyping |-> isTyping, userId |-> userId]
  /\ Commit(EmitTyping(World, conn[i].subs.typing, chatId, isTyping, userId))
  /\ UNCHANGED notTypingVars

\* the callback of a typing timer
TypingTimerFire(t) ==
  /\ t \in typingTimers
  /\ t.left = 0
  /\ Commit([World EXCEPT !.state = IF t.isSubscribed
                                     THEN SET_TYPING(@, t.chatId, FALSE) ELSE @,
                          !.typingTimeoutsRef[t.chatId] = 0,
                          !.typingTimers = @ \ {t}])
  /\ UNCHANGED <<typingSeq, lastTyping, notTypingVars>>

\* a second passes
Tick ==
  /\ typingTimers # {}
  /\ \A t \in typingTimers : t.left > 0
  /\ typingTimers' = {[t EXCEPT !.left = @ - 1] : t \in typingTimers}
  /\ UNCHANGED <<chatVars, srvVars, backVars, mgrVars, pageVars, connVars, typingTimeoutsRef, typingSeq, lastTyping,
                 sendVars>>

ConnInit ==
  /\ isAuthenticated = FALSE
  /\ svc = NewSvc
  /\ conn = [i \in 1..MaxConn |-> FreeConn]
  /\ timers = 0
  /\ prov = Unmounted
  /\ userClosed = FALSE
  /\ typingTimeoutsRef = NoTypingTimeouts
  /\ typingTimers = {}
  /\ typingSeq = 0
  /\ lastTyping = NoTyping

(***************************************************************************)
(* The server's socket handlers (socket.ts) and the clients' sockets.  A   *)
(* room is named by an id, a user's or a chat's; ids are strings.  upQ     *)
(* holds what the clients emitted, in order; inbox[s] holds the message    *)
(* events the server sent to socket s.  Presence broadcasts (userOnline,   *)
(* userOffline) have no listener in the client: the last one per id is     *)
(* kept in presence.                                                       *)
(***************************************************************************)
Socks == 1..MaxSocks

\* the user whose client holds socket s
SockOwner(s) == IF s = 1 THEN "A" ELSE "B"

\* chat._id as a string
ChatRoom == <<"c1", "c2", "c3">>

PresenceIds == Users \cup Range(ChatRoom)

\* io.to(room).emit(name) (from = 0) and socket.to(room).emit(name): to every
\* socket of the room but the emitting one
Emit(box, room, from, name, msg) ==
  [t \in Socks |-> IF <<t, room>> \in joined /\ t # from
                   THEN Append(box[t], [name |-> name, msg |-> msg])
                   ELSE box[t]]

RECURSIVE EmitAll(_, _, _, _)
EmitAll(box, names, name, msg) ==
  IF names = <<>> THEN box
  ELSE EmitAll(Emit(box, Head(names), 0, name, msg), Tail(names), name, msg)

\* io.on('connection')
OnConnection(s) ==
  /\ sockUp[s] = "new"
  /\ sockUp' = [sockUp EXCEPT ![s] = "up"]
  /\ UNCHANGED <<upQ, joined, onlineUsers, presence, invoked, inbox,
                 msgReqs, chatsColl, msgColl, events, notBackVars>>

\* SocketIOChatService.joinChat(chatId) on a connected socket, for a chat of
\* the user's list: emit joinChat and join (a socket opens a chat once)
EmitJoinChat(s, c) ==
  /\ sockUp[s] = "up"
  /\ chatsColl[c].exists
  /\ SockOwner(s) \in Range(chatsColl[c].participants)
  /\ <<s, ChatRoom[c]>> \notin joined
  /\ \A i \in 1..Len(upQ) : upQ[i].sock = s => upQ[i].room # ChatRoom[c]
  /\ Len(upQ) + 2 <= MaxUp
  /\ upQ' = upQ \o <<[sock |-> s, name |-> "joinChat", room |-> ChatRoom[c], msg |-> NoMsg],
                     [sock |-> s, name |-> "join", room |-> ChatRoom[c], msg |-> NoMsg]>>
  /\ UNCHANGED <<sockUp, joined, onlineUsers, presence, invoked, inbox,
                 msgReqs, chatsColl, msgColl, events, notBackVars>>

\* the sender's client after the 201: wsService.sendMessage(chatId, message)
\* emits message and newMessage on its connected socket
EmitNewMessage(r) ==
  /\ msgReqs[r].pc = "done"
  /\ msgReqs[r].status = 201
  /\ Len(upQ) + 2 <= MaxUp
  /\ \E s \in Socks :
       /\ SockOwner(s) = msgReqs[r].user
       /\ sockUp[s] = "up"
       /\ upQ' = upQ \o <<[sock |-> s, name |-> "message",
                           room |-> ChatRoom[msgReqs[r].chatId], msg |-> msgReqs[r].msg],
                          [sock |-> s, name |-> "newMessage",
                           room |-> ChatRoom[msgReqs[r].chatId], msg |-> msgReqs[r].msg]>>
  /\ msgReqs' = [msgReqs EXCEPT ![r].pc = "closed"]
  /\ UNCHANGED <<sockUp, joined, onlineUsers, presence, invoked, inbox,
                 chatsColl, msgColl, events, notBackVars>>

\* socket.on('join', userId)
OnJoin ==
  /\ upQ # <<>>
  /\ Head(upQ).name = "join"
  /\ LET e == Head(upQ)
     IN /\ onlineUsers' = Append(SelectSeq(onlineUsers, LAMBDA user : user.userId # e.room),
                                 [userId |-> e.room, socketId |-> e.sock])
        /\ joined' = joined \cup {<<e.sock, e.room>>}
        /\ presence' = [presence EXCEPT ![e.room] = "online"]
  /\ upQ' = Tail(upQ)
  /\ UNCHANGED <<sockUp, invoked, inbox, msgReqs, chatsColl, msgColl, events, notBackVars>>

\* socket.on('joinChat', chatId)
OnJoinChat ==
  /\ upQ # <<>>
  /\ Head(upQ).name = "joinChat"
  /\ joined' = joined \cup {<<Head(upQ).sock, Head(upQ).room>>}
  /\ upQ' = Tail(upQ)
  /\ UNCHANGED <<sockUp, onlineUsers, presence, invoked, inbox,
                 msgReqs, chatsColl, msgColl, events, notBackVars>>

\* socket.on('newMessage', data): messageReceived to the chat's room
OnNewMessage ==
  /\ upQ # <<>>
  /\ Head(upQ).name = "newMessage"
  /\ inbox' = Emit(inbox, Head(upQ).room, Head(upQ).sock, "messageReceived", Head(upQ).msg)
  /\ upQ' = Tail(upQ)
  /\ UNCHANGED <<sockUp, joined, onlineUsers, presence, invoked,
                 msgReqs, chatsColl, msgColl, events, notBackVars>>

\* an event the server has no listener for (message)
OnUnlistened ==
  /\ upQ # <<>>
  /\ Head(upQ).name \notin {"join", "joinChat", "newMessage"}
  /\ upQ' = Tail(upQ)
  /\ UNCHANGED <<sockUp, joined, onlineUsers, presence, invoked, inbox,
                 msgReqs, chatsColl, msgColl, events, notBackVars>>

\* socket.on('disconnect'): the socket has left its rooms; what it had
\* emitted and the server had not received is lost with the connection
OnDisconnect(s) ==
  /\ sockUp[s] = "up"
  /\ sockUp' = [sockUp EXCEPT ![s] = "closed"]
  /\ upQ' = SelectSeq(upQ, LAMBDA e : e.sock # s)
  /\ joined' = {j \in joined : j[1] # s}
  /\ inbox' = [inbox EXCEPT ![s] = <<>>]
  /\ IF \E i \in 1..Len(onlineUsers) : onlineUsers[i].socketId = s
     THEN LET user == onlineUsers[CHOOSE i \in 1..Len(onlineUsers) :
                        /\ onlineUsers[i].socketId = s
                        /\ \A j \in 1..(i - 1) : onlineUsers[j].socketId # s]
          IN /\ onlineUsers' = SelectSeq(onlineUsers, LAMBDA u : u.socketId # s)
             /\ presence' = [presence EXCEPT ![user.userId] = "offline"]
     ELSE UNCHANGED <<onlineUsers, presence>>
  /\ UNCHANGED <<invoked, msgReqs, chatsColl, msgColl, events, notBackVars>>

\* the events SocketIOChatService.onMessage listens to
MessageEvents == {"message", "newMessage", "messageReceived"}

\* the client's socket dispatches an event: the registered message handler
\* runs when the event is one it listens to
Receive(s) ==
  /\ inbox[s] # <<>>
  /\ inbox' = [inbox EXCEPT ![s] = Tail(@)]
  /\ invoked' = IF Head(inbox[s]).name \in MessageEvents
                THEN [invoked EXCEPT ![s][Head(inbox[s]).msg] = @ + 1]
                ELSE invoked
  /\ UNCHANGED <<sockUp, upQ, joined, onlineUsers, presence,
                 msgReqs, chatsColl, msgColl, events, notBackVars>>

SockInit ==
  /\ sockUp = [s \in Socks |-> "new"]
  /\ upQ = <<>>
  /\ joined = {}
  /\ onlineUsers = <<>>
  /\ presence = [x \in PresenceIds |-> "none"]
  /\ inbox = [s \in Socks |-> <<>>]
  /\ invoked = [s \in Socks |-> [m \in 1..MaxPost |-> 0]]

(***************************************************************************)
(* Backend sendMessage (POST /chats/:chatId/messages) as the server runs   *)
(* it.  A request is handled in steps, each await of the controller ending *)
(* one: Chat.findById, message.save, chat.save with the emits and the      *)
(* response.  Requests interleave at the awaits, and an await may reject.  *)
(***************************************************************************)
\* the ids a request may name: the chats of the collection and one more
PostChatIds == 1..(MaxChats + 1)

\* req.body.content: empty or not
Contents == {"", "hi"}

NoDoc == [exists |-> FALSE, participants |-> <<>>, lastMessage |-> NoMsg]

IdlePost == [pc |-> "idle", user |-> "A", chatId |-> 0, content |-> "",
             chat |-> NoDoc, msg |-> NoMsg, status |-> 0]

\* the participants that are not the sender, all of them
RecipientsAll(chat, user) == chat.participants

\* chat.participants.forEach: participantId.toString() !== req.user._id.toString()
Recipients(chat, user) == SelectSeq(chat.participants, LAMBDA p : p # user)

\* the request arrives: the content check, then the controller awaits findById
PostMessageArrive(u, c, content) ==
  /\ \E r \in 1..MaxPost : msgReqs[r].pc = "idle"
  /\ LET r == CHOOSE i \in 1..MaxPost :
                msgReqs[i].pc = "idle" /\ \A j \in 1..(i - 1) : msgReqs[j].pc # "idle"
         req == [IdlePost EXCEPT !.user = u, !.chatId = c, !.content = content]
     IN msgReqs' = [msgReqs EXCEPT ![r] =
          IF content = "" THEN [req EXCEPT !.pc = "done", !.status = 400]
          ELSE [req EXCEPT !.pc = "find"]]
  /\ UNCHANGED <<chatsColl, msgColl, events, inbox, sockVars, notBackVars>>

\* Chat.findById returns: 404, or go on to create the message
PostMessageFind(r) ==
  /\ msgReqs[r].pc = "find"
  /\ LET chat == chatsColl[msgReqs[r].chatId]
     IN msgReqs' = [msgReqs EXCEPT ![r] =
          IF ~chat.exists THEN [@ EXCEPT !.pc = "done", !.status = 404]
          ELSE [@ EXCEPT !.pc = "saveMessage", !.chat = chat]]
  /\ UNCHANGED <<chatsColl, msgColl, events, inbox, sockVars, notBackVars>>

\* new Message({chatId, content, sender}).save()
PostMessageSave(r) ==
  /\ msgReqs[r].pc = "saveMessage"
  /\ msgColl' = Append(msgColl, [id |-> Len(msgColl) + 1, chatId |-> msgReqs[r].chatId,
                                 sender |-> msgReqs[r].user, req |-> r])
  /\ msgReqs' = [msgReqs EXCEPT ![r].pc = "saveChat", ![r].msg = Len(msgColl) + 1]
  /\ UNCHANGED <<chatsColl, events, inbox, sockVars, notBackVars>>

\* chat.lastMessage = message._id; chat.save() (the pre-save hook of the
\* schema runs); then message:new to the room of every participant but the
\* sender, and 201
PostMessageSaveChat(r) ==
  /\ msgReqs[r].pc = "saveChat"
  /\ LET req == msgReqs[r]
         rooms == Recipients(req.chat, req.user)
     IN IF Len(req.chat.participants) # 2
        THEN /\ msgReqs' = [msgReqs EXCEPT ![r].pc = "done", ![r].status = 500]
             /\ UNCHANGED <<chatsColl, events, inbox>>
        ELSE /\ chatsColl' = [chatsColl EXCEPT ![req.chatId].lastMessage = req.msg]
             /\ events' = events \o [i \in 1..Len(rooms) |->
                                       [name |-> "message:new", room |-> rooms[i],
                                        msg |-> req.msg]]
             /\ inbox' = EmitAll(inbox, rooms, "message:new", req.msg)
             /\ msgReqs' = [msgReqs EXCEPT ![r].pc = "done", ![r].status = 201]
  /\ UNCHANGED <<msgColl, sockVars, notBackVars>>

\* an await rejects (the database is not reachable): catch, 500
PostMessageError(r) ==
  /\ msgReqs[r].pc \in {"find", "saveMessage", "saveChat"}
  /\ msgReqs' = [msgReqs EXCEPT ![r].pc = "done", ![r].status = 500]
  /\ UNCHANGED <<chatsColl, msgColl, events, inbox, sockVars, notBackVars>>

\* the collections hold the direct chats A-B and A-C and no message
BackInit ==
  /\ msgReqs = [r \in 1..MaxPost |-> IdlePost]
  /\ chatsColl = [c \in PostChatIds |->
                    IF c = 1 THEN [exists |-> TRUE, participants |-> <<"A", "B">>,
                                   lastMessage |-> NoMsg]
                    ELSE IF c = 2 THEN [exists |-> TRUE, participants |-> <<"A", "C">>,
                                        lastMessage |-> NoMsg]
                    ELSE NoDoc]
  /\ msgColl = <<>>
  /\ events = <<>>
  /\ SockInit

(***************************************************************************)
(* WebSocketManager.  mgrSocks[i] is the i-th socket made by connect():    *)
(* its state (none, connecting, open, closed) and the listeners that on()  *)
(* put on it for the application's event, each a wrapper that calls one    *)
(* callback.  The listeners of setupConnectionStateHandlers are on every   *)
(* socket made.                                                            *)
(***************************************************************************)
Handlers == {"h1", "h2"}

mgrMaxReconnectAttempts == 5

NoMgrSock == [st |-> "none", listeners |-> <<>>]

NewMgr == [socket |-> 0, isConnecting |-> FALSE, reconnectAttempts |-> 0,
           eventHandlers |-> <<>>]

\* connect(): the manager and the sockets after the call
MgrConnect(m, ss) ==
  IF (m.socket # 0 /\ ss[m.socket].st = "open") \/ m.isConnecting
  THEN [mgr |-> m, socks |-> ss]
  ELSE IF ~token THEN [mgr |-> [m EXCEPT !.isConnecting = TRUE], socks |-> ss]
  ELSE LET i == CHOOSE k \in 1..MaxMgrSocks :
                  ss[k].st = "none" /\ \A j \in 1..(k - 1) : ss[j].st # "none"
       IN [mgr |-> [m EXCEPT !.isConnecting = TRUE, !.socket = i],
           socks |-> [ss EXCEPT ![i].st = "connecting"]]

\* attemptReconnect(): the pending timers after the call
MgrAttemptReconnect(m, n) ==
  IF m.reconnectAttempts >= mgrMaxReconnectAttempts THEN n ELSE n + 1

\* a socket can still be made
MgrRoom == \E k \in 1..MaxMgrSocks : mgrSocks[k].st = "none"

\* the application calls connect()
ManagerConnect ==
  /\ MgrRoom
  /\ LET r == MgrConnect(mgr, mgrSocks)
     IN /\ mgr' = r.mgr
        /\ mgrSocks' = r.socks
  /\ UNCHANGED <<mgrTimers, reg, lastCalls, token, notMgrVars>>

\* socket.on("connect")
ManagerSockConnect(i) ==
  /\ mgrSocks[i].st = "connecting"
  /\ mgrSocks' = [mgrSocks EXCEPT ![i].st = "open"]
  /\ mgr' = [mgr EXCEPT !.isConnecting = FALSE, !.reconnectAttempts = 0]
  /\ UNCHANGED <<mgrTimers, reg, lastCalls, token, notMgrVars>>

\* socket.on("connect_error")
ManagerSockConnectError(i) ==
  /\ mgrSocks[i].st = "connecting"
  /\ mgrSocks' = [mgrSocks EXCEPT ![i].st = "closed"]
  /\ mgr' = [mgr EXCEPT !.isConnecting = FALSE]
  /\ mgrTimers' = MgrAttemptReconnect(mgr, mgrTimers)
  /\ UNCHANGED <<reg, lastCalls, token, notMgrVars>>

\* socket.on("disconnect"), the connection lost or closed by the server
ManagerSockDisconnect(i, byServer) ==
  /\ mgrSocks[i].st = "open"
  /\ mgrSocks' = [mgrSocks EXCEPT ![i].st = "closed"]
  /\ mgr' = [mgr EXCEPT !.isConnecting = FALSE]
  /\ mgrTimers' = IF byServer THEN MgrAttemptReconnect(mgr, mgrTimers) ELSE mgrTimers
  /\ UNCHANGED <<reg, lastCalls, token, notMgrVars>>

\* the timer of attemptReconnect: reconnectAttempts++, connect()
ManagerTimerFire ==
  /\ mgrTimers > 0
  /\ MgrRoom
  /\ mgrTimers' = mgrTimers - 1
  /\ LET r == MgrConnect([mgr EXCEPT !.reconnectAttempts = @ + 1], mgrSocks)
     IN /\ mgr' = r.mgr
        /\ mgrSocks' = r.socks
  /\ UNCHANGED <<reg, lastCalls, token, notMgrVars>>

\* disconnect(): socket.disconnect() fires the disconnect listener when the
\* socket was connected; then this.socket = null
ManagerDisconnect ==
  /\ mgr.socket # 0
  /\ mgrSocks' = [mgrSocks EXCEPT ![mgr.socket].st = "closed"]
  /\ mgr' = [mgr EXCEPT !.socket = 0,
                        !.isConnecting = IF mgrSocks[mgr.socket].st = "open"
                                         THEN FALSE ELSE @]
  /\ UNCHANGED <<mgrTimers, reg, lastCalls, token, notMgrVars>>

\* login stores the token, logout removes it
StoreToken(b) ==
  /\ token # b
  /\ token' = b
  /\ UNCHANGED <<mgrVars, notMgrVars>>

\* on(event, callback): the callback joins eventHandlers; with a socket, a
\* wrapper calling it becomes a listener of the socket (a callback is
\* registered once)
ManagerOn(h) ==
  /\ reg[h] = "never"
  /\ reg' = [reg EXCEPT ![h] = "on"]
  /\ mgr' = [mgr EXCEPT !.eventHandlers = Append(@, h)]
  /\ mgrSocks' = IF mgr.socket # 0
                 THEN [mgrSocks EXCEPT ![mgr.socket].listeners = Append(@, h)]
                 ELSE mgrSocks
  /\ UNCHANGED <<mgrTimers, lastCalls, token, notMgrVars>>

\* off(event, callback): the callback leaves eventHandlers; socket.off is
\* given the callback, which is no listener of the socket (the wrapper is)
ManagerOff(h) ==
  /\ reg[h] = "on"
  /\ reg' = [reg EXCEPT ![h] = "off"]
  /\ LET handlers == mgr.eventHandlers
         index == CHOOSE k \in 1..Len(handlers) :
                    handlers[k] = h /\ \A j \in 1..(k - 1) : handlers[j] # h
     IN mgr' = [mgr EXCEPT !.eventHandlers =
                  SubSeq(handlers, 1, index - 1) \o SubSeq(handlers, index + 1, Len(handlers))]
  /\ UNCHANGED <<mgrSocks, mgrTimers, lastCalls, token, notMgrVars>>

\* the event occurs on a connected socket: its listeners run
ManagerEvent(i) ==
  /\ mgrSocks[i].st = "open"
  /\ lastCalls' = [h \in Handlers |-> Count(mgrSocks[i].listeners, h)]
  /\ UNCHANGED <<mgr, mgrSocks, mgrTimers, reg, token, notMgrVars>>

MgrInit ==
  /\ mgr = NewMgr
  /\ mgrSocks = [i \in 1..MaxMgrSocks |-> NoMgrSock]
  /\ mgrTimers = 0
  /\ reg = [h \in Handlers |-> "never"]
  /\ lastCalls = [h \in Handlers |-> 0]

(***************************************************************************)
(* Backend getMessages (GET /chats/:chatId/messages?page&limit):           *)
(* Message.find({chatId}).sort({createdAt: -1}).skip((page - 1) * limit)   *)
(* .limit(limit), reversed.  The query is served from the index            *)
(* {chatId: 1, createdAt: -1} of the schema, which lists messages of one   *)
(* createdAt in insertion order.                                           *)
(***************************************************************************)
\* parseInt(x) || d, for an x that is absent (0 here) or a positive number
ParseOr(x, d) == IF x = 0 THEN d ELSE x

RECURSIVE SortNewestFirst(_)
SortNewestFirst(ms) ==
  IF ms = <<>> THEN <<>>
  ELSE LET k == CHOOSE i \in 1..Len(ms) :
                  /\ \A j \in 1..Len(ms) : ms[j].createdAt <= ms[i].createdAt
                  /\ \A j \in 1..(i - 1) : ms[j].createdAt < ms[i].createdAt
       IN <<ms[k]>> \o SortNewestFirst(SubSeq(ms, 1, k - 1) \o SubSeq(ms, k + 1, Len(ms)))

Reverse(ms) == [i \in 1..Len(ms) |-> ms[Len(ms) + 1 - i]]

\* getMessages without the reverse of the page
getMessagesNewestFirst(chatId, pageParam, limitParam) ==
  LET page == ParseOr(pageParam, 1)
      limit == ParseOr(limitParam, 50)
      found == SortNewestFirst(SelectSeq(srvMsgs, LAMBDA m : m.chatId = chatId))
      skipped == SubSeq(found, (page - 1) * limit + 1, Len(found))
  IN SubSeq(skipped, 1, Min(limit, Len(skipped)))

getMessagesPage(chatId, pageParam, limitParam) ==
  LET page == ParseOr(pageParam, 1)
      limit == ParseOr(limitParam, 50)
      found == SortNewestFirst(SelectSeq(srvMsgs, LAMBDA m : m.chatId = chatId))
      skipped == SubSeq(found, (page - 1) * limit + 1, Len(found))
      messages == SubSeq(skipped, 1, Min(limit, Len(skipped)))
  IN Reverse(messages)

\* a message is saved in chat c (sendMessage of the controller, for any
\* sender), in the same millisecond as the last one or later
StoreMessage(c, u, later) ==
  /\ Len(srvMsgs) < MaxStored
  /\ srvChats[c].exists
  /\ srvMsgs' = Append(srvMsgs, NewMsg(c, u))
  /\ srvChats' = [srvChats EXCEPT ![c].lastMessage = Len(srvMsgs) + 1,
                                  ![c].updatedAt = clock]
  /\ clock' = IF later THEN clock + 1 ELSE clock
  /\ UNCHANGED <<state, currentStateRef, token, msgFetch, chatFetch, sendReq, pushQ,
                 ops, notChatVars>>

\* the handler of GET /chats/:chatId/messages
GetMessages(c, pageParam, limitParam) ==
  /\ resp' = [chatId |-> c, page |-> pageParam, limit |-> limitParam,
              messages |-> getMessagesPage(c, pageParam, limitParam)]
  /\ UNCHANGED <<chatVars, srvVars, connVars, typingVars, sendVars, backVars, mgrVars>>

PageInit == resp = [chatId |-> 0, page |-> 0, limit |-> 0, messages |-> <<>>]

(***************************************************************************)
(* The specifications.                                                     *)
(***************************************************************************)
\* SpecChat: a logged-in user on the chat page
NextChat ==
  \/ LoadChatsStart
  \/ ServeChatsOk
  \/ \E e \in {ErrAuth, ErrLoadChats} : ServeChatsFail(e)
  \/ LoadChatsOk
  \/ LoadChatsFail
  \/ LoadChatsRetry
  \/ \E i \in 1..MaxChats + MaxChats : SetActiveChat(i)
  \/ LoadMessagesStart
  \/ \E i \in 1..MaxMsgFetch : ServeMessagesOk(i)
  \/ \E i \in 1..MaxMsgFetch : ServeMessagesFail(i)
  \/ \E i \in 1..MaxMsgFetch : LoadMessagesOk(i)
  \/ \E i \in 1..MaxMsgFetch : LoadMessagesFail(i)
  \/ \E value \in {NoText, Text} : HandleChange(value)
  \/ SendMessageStart
  \/ \E i \in DOMAIN sendReq : ServeSendOk(i)
  \/ \E i \in DOMAIN sendReq : ServeSendFail(i)
  \/ \E i \in DOMAIN sendReq : SendMessageOk(i)
  \/ \E i \in DOMAIN sendReq : SendMessageFail(i)
  \/ \E c \in ChatIds, u \in {Me, Peer}, k \in 1..MaxCopies : RemoteSend(c, u, k)
  \/ \E m \in MsgIds : DeliverMessage(m)
  \/ \E c \in ChatIds, k \in 0..1 : CreateChat(c, k)
  \/ \E c \in ChatIds : DeliverNewChat(c)
  \/ SyncStateRef

InitChat == ChatInit /\ token = TRUE /\ SrvIdle /\ ConnInit /\ BackInit /\ MgrInit /\ PageInit

SpecChat == InitChat /\ [][NextChat]_vars

\* a request that was sent is answered or fails, the code that awaits the
\* answer runs, and the timer of a retry fires
SpecChatLive ==
  /\ SpecChat
  /\ WF_vars(ServeChatsOk \/ \E e \in {ErrAuth, ErrLoadChats} : ServeChatsFail(e))
  /\ WF_vars(LoadChatsOk)
  /\ WF_vars(LoadChatsFail)
  /\ WF_vars(LoadChatsRetry)

\* SpecSrv: the backend alone
InitSrv == SrvInit /\ ChatInit /\ token = TRUE /\ ConnInit /\ BackInit /\ MgrInit /\ PageInit

NextSrv ==
  \/ \E u \in Users, body \in Bodies, g \in BOOLEAN : CreateChatArrive(u, body, g)
  \/ \E r \in 1..MaxReq : CreateChatFound(r)
  \/ \E r \in 1..MaxReq : CreateChatSave(r)

SpecSrv == InitSrv /\ [][NextSrv]_vars

\* SpecConn: the application is opened, with or without a stored session
InitConn == ConnInit /\ ChatInit /\ token \in BOOLEAN /\ SrvIdle /\ BackInit /\ MgrInit /\ PageInit

NextConn ==
  \/ Login
  \/ Mount
  \/ Logout
  \/ JoinChat
  \/ \E i \in 1..MaxConn : SockConnectOk(i)
  \/ \E i \in 1..MaxConn, giveUp \in BOOLEAN : SockConnectError(i, giveUp)
  \/ \E i \in 1..MaxConn : SockDrop(i)
  \/ \E i \in 1..MaxConn : SockServerDisconnect(i)
  \/ \E i \in 1..MaxConn : SockError(i)
  \/ \E i \in 1..MaxConn : WaitTimeout(i)
  \/ SvcTimerFire
  \/ ProvTimerFire

SpecConn == InitConn /\ [][NextConn]_vars

\* SpecTyping: typing events and the passing of time, over sessions whose
\* connection is made at the first attempt and may drop and come back
NextTyping ==
  \/ Login
  \/ Mount
  \/ Logout
  \/ \E i \in 1..MaxConn : SockConnectOk(i)
  \/ \E i \in 1..MaxConn : SockDrop(i)
  \/ SvcTimerFire
  \/ \E i \in 1..MaxConn, c \in ChatIds, b \in BOOLEAN, u \in {Me, Peer} :
        TypingEvent(i, c, b, u)
  \/ \E t \in typingTimers : TypingTimerFire(t)
  \/ Tick

SpecTyping == InitConn /\ [][NextTyping]_vars

\* time goes on and a timer that is due fires
SpecTypingLive == SpecTyping /\ WF_vars(Tick)
                    /\ WF_vars(\E t \in typingTimers : TypingTimerFire(t))

\* SpecBack: the backend's sendMessage under concurrent requests
InitBack == BackInit /\ ChatInit /\ token = TRUE /\ SrvIdle /\ ConnInit /\ MgrInit /\ PageInit

NextBack ==
  \/ \E u \in Users, c \in PostChatIds, content \in Contents : PostMessageArrive(u, c, content)
  \/ \E r \in 1..MaxPost : PostMessageFind(r)
  \/ \E r \in 1..MaxPost : PostMessageSave(r)
  \/ \E r \in 1..MaxPost : PostMessageSaveChat(r)
  \/ \E r \in 1..MaxPost : PostMessageError(r)

SpecBack == InitBack /\ [][NextBack]_vars

\* SpecPush: user A sends messages; A's and B's clients hold one socket each
NextPush ==
  \/ \E s \in Socks : OnConnection(s)
  \/ \E s \in Socks, c \in ChatIds : EmitJoinChat(s, c)
  \/ \E c \in ChatIds : PostMessageArrive("A", c, "hi")
  \/ \E r \in 1..MaxPost : PostMessageFind(r)
  \/ \E r \in 1..MaxPost : PostMessageSave(r)
  \/ \E r \in 1..MaxPost : PostMessageSaveChat(r)
  \/ \E r \in 1..MaxPost : EmitNewMessage(r)
  \/ OnJoin
  \/ OnJoinChat
  \/ OnNewMessage
  \/ OnUnlistened
  \/ \E s \in Socks : Receive(s)

SpecPush == InitBack /\ [][NextPush]_vars

\* the connections are made, requests are served, and what was emitted is
\* handled; when a user opens a chat is up to the user
SpecPushLive ==
  /\ SpecPush
  /\ \A s \in Socks : WF_vars(OnConnection(s))
  /\ \A r \in 1..MaxPost : WF_vars(PostMessageFind(r) \/ PostMessageSave(r)
                                    \/ PostMessageSaveChat(r) \/ EmitNewMessage(r))
  /\ WF_vars(OnJoin \/ OnJoinChat \/ OnNewMessage \/ OnUnlistened)
  /\ \A s \in Socks : WF_vars(Receive(s))

\* SpecPresence: sockets come and go and their clients open chats
NextPresence ==
  \/ \E s \in Socks : OnConnection(s)
  \/ \E s \in Socks, c \in ChatIds : EmitJoinChat(s, c)
  \/ OnJoin
  \/ OnJoinChat
  \/ \E s \in Socks : OnDisconnect(s)

SpecPresence == InitBack /\ [][NextPresence]_vars

\* SpecMgr: an application that uses WebSocketManager, with or without a
\* stored session
InitMgr == MgrInit /\ ChatInit /\ token \in BOOLEAN /\ SrvIdle /\ ConnInit /\ BackInit /\ PageInit

NextMgr ==
  \/ ManagerConnect
  \/ \E i \in 1..MaxMgrSocks : ManagerSockConnect(i)
  \/ \E i \in 1..MaxMgrSocks : ManagerSockConnectError(i)
  \/ \E i \in 1..MaxMgrSocks, byServer \in BOOLEAN : ManagerSockDisconnect(i, byServer)
  \/ ManagerTimerFire
  \/ ManagerDisconnect
  \/ \E b \in BOOLEAN : StoreToken(b)
  \/ \E h \in Handlers : ManagerOn(h)
  \/ \E h \in Handlers : ManagerOff(h)
  \/ \E i \in 1..MaxMgrSocks : ManagerEvent(i)

SpecMgr == InitMgr /\ [][NextMgr]_vars

\* SpecPage: messages are saved in two chats and pages of them are read
NextPage ==
  \/ \E c \in ChatIds : CreateChat(c, 0)
  \/ \E c \in ChatIds, later \in BOOLEAN : StoreMessage(c, Peer, later)
  \/ \E c \in ChatIds, page \in 0..MaxPage, limit \in 0..MaxLimit : GetMessages(c, page, limit)

SpecPage == InitChat /\ [][NextPage]_vars

\* ChatWindowContent: const chatMessages = state.messages[chatId] || []
chatMessages(chatId) == state.messages[chatId]

(***************************************************************************)
(* C1: every chat's message list holds each message id at most once, after *)
(* any interleaving of inbound message events, sendMessage completions and *)
(* loadMessages completions.                                               *)
(***************************************************************************)
C1_NoDuplicateMessages ==
  \A c \in ChatIds : \A m \in MsgIds : Count(state.messages[c], m) <= 1

(***************************************************************************)
(* C2: the message list read for a chat is ordered by creation timestamp,  *)
(* ties broken by message id, whatever the order of arrival.               *)
(***************************************************************************)
Before(m, n) ==
  \/ srvMsgs[m].createdAt < srvMsgs[n].createdAt
  \/ srvMsgs[m].createdAt = srvMsgs[n].createdAt /\ m <= n

C2_MessagesOrdered ==
  \A c \in ChatIds :
    \A i, j \in 1..Len(chatMessages(c)) :
      i < j => Before(chatMessages(c)[i], chatMessages(c)[j])

(***************************************************************************)
(* C3: concurrent non-group createChat requests between the same two users *)
(* persist at most one chat for the pair, and every one of the requests    *)
(* returns that same chat.                                                 *)
(***************************************************************************)
DirectOk(r) ==
  /\ requests[r].pc = "done"
  /\ ~requests[r].isGroup
  /\ requests[r].status \in {200, 201}

Pair(r) == {requests[r].user, requests[r].participants[1]}

Pairs == {{u, v} : u, v \in Users} \ {{u} : u \in Users}

CreatedFor(P) ==
  {requests[r].chat : r \in {q \in 1..MaxReq :
     DirectOk(q) /\ requests[q].status = 201 /\ Pair(q) = P}}

C3_OneChatPerPair ==
  /\ \A P \in Pairs : Cardinality(CreatedFor(P)) <= 1
  /\ \A r, q \in 1..MaxReq :
       DirectOk(r) /\ DirectOk(q) /\ Pair(r) = Pair(q) /\ Pair(r) \in Pairs
         => requests[r].chat = requests[q].chat

(***************************************************************************)
(* C4: the conversation list holds each conversation id at most once.      *)
(***************************************************************************)
C4_NoDuplicateChats ==
  \A c \in ChatIds : Count(Ids(state.chats), c) <= 1

(***************************************************************************)
(* C5: the k-th failed connection attempt in a row (k = 0, 1, 2, ...)      *)
(* schedules the next one after min(2^k, 30) units, and a successful       *)
(* connect resets the attempt counter, so that the first failure after it  *)
(* waits 1 unit again.                                                     *)
(***************************************************************************)
ProvDelayOk ==
  prov.pc = "timer" => prov.delay = Min(Pow2(prov.fails - 1), MaxDelay)

ResetOnConnect ==
  \A i \in 1..MaxConn :
    svc.socket = i /\ conn[i].sock = "connecting" /\ conn'[i].sock = "open"
      => Delay(svc') = 1

C5_BackoffAndReset == [][ProvDelayOk' /\ ResetOnConnect]_vars

(***************************************************************************)
(* C6: once the maximum of 5 failed reconnect attempts in a row is reached *)
(* no further attempt is scheduled and a terminal error is surfaced.       *)
(***************************************************************************)
Surfaced == state.error = ErrExhausted

C6_ExhaustedIsTerminal ==
  /\ prov.pc = "exhausted" => Surfaced
  /\ svc.gaveUp => Surfaced /\ timers = 0

(***************************************************************************)
(* C7: at most one reconnect timer is pending for the connection service,  *)
(* whether armed by the service's listeners or by the provider's retry.    *)
(***************************************************************************)
PendingReconnects == timers + (IF prov.pc = "timer" THEN 1 ELSE 0)

C7_OneReconnectTimer == PendingReconnects <= 1

(***************************************************************************)
(* C8: after a disconnect() by the user, and until a caller calls          *)
(* connect() again, no connection attempt is started: no socket is made.   *)
(***************************************************************************)
SocketMade ==
  \E i \in 1..MaxConn : conn[i].sock = "none" /\ conn'[i].sock = "connecting"

C8_NoConnectAfterDisconnect == [][userClosed /\ userClosed' => ~SocketMade]_vars

(***************************************************************************)
(* C9: connect() is rejected with the authentication error exactly when no *)
(* token is stored at the time of the call.                                *)
(***************************************************************************)
ConnectResult ==
  LET v == Connect(World) IN IF v.ok THEN PromiseOf(v, v.ret) ELSE "none"

C9_ConnectDependsOnToken ==
  ConnectResult # "none" => (ConnectResult = ErrNoToken <=> ~token)

(***************************************************************************)
(* C10: at most one socket made by the service is open or connecting.      *)
(***************************************************************************)
LiveSockets == {i \in 1..MaxConn : Live(conn[i])}

C10_OneLiveSocket == Cardinality(LiveSockets) <= 1

(***************************************************************************)
(* C13: an inbound message event whose sender is the local user leaves     *)
(* every chat's message list and the conversation list (its order and the  *)
(* lastMessage of its chats) unchanged.                                    *)
(***************************************************************************)
OwnMessageNext ==
  /\ pushQ # <<>>
  /\ Head(pushQ).type = "message"
  /\ srvMsgs[Head(pushQ).id].sender = Me

C13_OwnMessageIgnored ==
  [][OwnMessageNext /\ pushQ' = Tail(pushQ)
       => state'.messages = state.messages /\ state'.chats = state.chats]_vars

\* the user's other device has sent a message into a loaded chat and its
\* event has been handled here
C13_OwnMessageDelivered ==
  /\ Len(srvMsgs) = 1
  /\ srvMsgs[1].sender = Me
  /\ sendReq[1].phase = "idle"
  /\ ops = 2
  /\ pushQ = <<>>
  /\ Len(state.chats) = 1
  /\ currentStateRef.chats = state.chats
  /\ state.messages[srvMsgs[1].chatId] = <<>>

(***************************************************************************)
(* C18: a message that is in a chat's list is still in it after any later  *)
(* loadMessages completion, also one whose request left before the message *)
(* was added.                                                              *)
(***************************************************************************)
C18_MessagesSurviveFetch ==
  [][\A i \in 1..MaxMsgFetch :
       msgFetch[i].phase = "ok" /\ msgFetch'[i].phase = "idle"
         => \A c \in ChatIds :
              Range(state.messages[c]) \subseteq Range(state'.messages[c])]_vars

(***************************************************************************)
(* C19: a failed loadMessages changes neither the conversation list nor    *)
(* any chat's stored message list.                                         *)
(***************************************************************************)
C19_FailedFetchKeepsMessages ==
  [][\A i \in 1..MaxMsgFetch :
       msgFetch[i].phase = "fail" /\ msgFetch'[i].phase = "idle"
         => state'.chats = state.chats /\ state'.messages = state.messages]_vars

(***************************************************************************)
(* C20: a conversation-list fetch that fails after its retries leaves the  *)
(* loaded conversation list and all message lists in place.                *)
(***************************************************************************)
C20_FailedLoadKeepsChats ==
  [][chatFetch.phase = "fail" /\ chatFetch'.phase = "idle"
       => state'.chats = state.chats /\ state'.messages = state.messages]_vars

(***************************************************************************)
(* C11: the handlers the provider has registered receive the events of the *)
(* connection also after a reconnect that made a new socket: whenever the  *)
(* service is connected, its socket carries them.                          *)
(***************************************************************************)
Registered == prov.pc = "connected"

C11_HandlersFollowSocket ==
  Registered /\ isConnected(World)
    => \A e \in DOMAIN NoSubs : conn[svc.socket].subs[e] >= 1

(***************************************************************************)
(* C12: an event received on a socket is handed to each registered handler *)
(* exactly once: every open socket of the service carries exactly one      *)
(* listener per event for the handlers the provider has registered.        *)
(***************************************************************************)
C12_HandlersOncePerSocket ==
  Registered
    => \A i \in 1..MaxConn : \A e \in DOMAIN NoSubs :
         conn[i].sock = "open" /\ (i = svc.socket \/ conn[i].subs # NoSubs)
           => conn[i].subs[e] = 1

(***************************************************************************)
(* C17: when the push connection is back after an unexpected drop, the     *)
(* conversation list has been fetched again (loadChats) by the time the    *)
(* session is live.                                                        *)
(***************************************************************************)
C17_ResyncOnReconnect ==
  Registered /\ isConnected(World) => prov.resynced


(***************************************************************************)
(* C14.  A typing event whose userId is the local user's changes neither   *)
(* typingStatus nor the typing timers (nor typingTimeoutsRef), whether it  *)
(* says typing or not.                                                     *)
(***************************************************************************)
C14_OwnTypingIgnored ==
  [][typingSeq' # typingSeq /\ lastTyping'.userId = Me
       => /\ state'.typingStatus = state.typingStatus
          /\ typingTimers' = typingTimers
          /\ typingTimeoutsRef' = typingTimeoutsRef]_vars

\* the local user's own "not typing" has arrived while the peer's indicator
\* for the same chat is on and its timer is running
C14_OwnTypingDelivered ==
  /\ lastTyping.userId = Me
  /\ ~lastTyping.isTyping
  /\ lastTyping.chatId \in ChatIds
  /\ state.typingStatus[lastTyping.chatId]
  /\ \E t \in typingTimers : t.chatId = lastTyping.chatId /\ t.left < TypingTTL

(***************************************************************************)
(* C15.  Once typingStatus[c] is true it becomes false again: by a typing  *)
(* event that says so or, when no further event for c arrives, by the      *)
(* timer, whatever else happens in between.  Checked under SpecTypingLive: *)
(* a behaviour that ends with typingStatus[c] true is one where no timer   *)
(* is pending, so that nothing the code has scheduled is left to run.      *)
(***************************************************************************)
C15_TypingExpires ==
  \A c \in ChatIds : state.typingStatus[c] ~> ~state.typingStatus[c]

(***************************************************************************)
(* C16.  A typing event for chat c from another user leaves typingStatus[c]*)
(* as the event says; after "not typing" no timer for c is pending, after  *)
(* "typing" exactly one is, it has the full 3 seconds to run and it is the *)
(* one typingTimeoutsRef holds.  At no time are two timers pending for one *)
(* chat.                                                                   *)
(***************************************************************************)
TimersOf(pending, c) == {t \in pending : t.chatId = c}

C16_TypingTimerRestarted ==
  [][/\ \A c \in ChatIds : Cardinality(TimersOf(typingTimers', c)) <= 1
     /\ typingSeq' # typingSeq /\ lastTyping'.userId # Me
          => LET c == lastTyping'.chatId
                 T == TimersOf(typingTimers', c)
             IN /\ state'.typingStatus[c] = lastTyping'.isTyping
                /\ IF lastTyping'.isTyping
                   THEN /\ Cardinality(T) = 1
                        /\ \A t \in T : t.left = TypingTTL /\ typingTimeoutsRef'[c] = t.id
                   ELSE T = {}]_vars

\* a peer's "typing" for a chat has arrived again while the timer of the
\* one before was pending: that timer is gone and the new one has the full
\* time to run, while the older timer of the other chat has gone on running
C16_TimerRestarted ==
  /\ typingSeq = 3
  /\ lastTyping.isTyping
  /\ lastTyping.userId = Peer
  /\ Cardinality(typingTimers) = 2
  /\ \E t, o \in typingTimers :
       /\ t.chatId = lastTyping.chatId /\ t.id = 3 /\ t.left = TypingTTL
       /\ o.chatId # t.chatId /\ o.id = 1 /\ o.left < TypingTTL


(***************************************************************************)
(* C21.  A call of sendMessage puts the outgoing message into the chat's   *)
(* message list at once, before the POST has been answered: the list is    *)
(* one entry longer after the call than before it.                         *)
(***************************************************************************)
C21_OptimisticAtSubmit ==
  [][\A i \in DOMAIN sendReq :
       sendReq[i].phase = "idle" /\ sendReq'[i].phase = "sent"
         => Len(state'.messages[sendReq'[i].chatId])
              = Len(state.messages[sendReq'[i].chatId]) + 1]_vars

(***************************************************************************)
(* C22.  When the POST of a sendMessage has succeeded, the confirmed       *)
(* message takes the place of the entry the call had put into the list    *)
(* (the chat being one the provider knows): the list keeps its length,     *)
(* holds the confirmed message at one index and is unchanged at every      *)
(* other index.                                                            *)
(***************************************************************************)
C22_PromotionKeepsPosition ==
  [][\A i \in DOMAIN sendReq :
       (sendReq[i].phase = "ok" /\ sendReq'[i].phase = "idle"
          /\ FindChat(currentStateRef.chats, sendReq[i].chatId).id # 0)
         => LET old == state.messages[sendReq[i].chatId]
                new == state'.messages[sendReq[i].chatId]
            IN /\ Len(new) = Len(old)
               /\ \E k \in 1..Len(new) :
                    /\ new[k] = sendReq[i].msg
                    /\ \A j \in 1..Len(new) : j # k => new[j] = old[j]]_vars


(***************************************************************************)
(* C28.  UPDATE_CHAT and UPDATE_CHAT_WITH_MESSAGE for chat c, applied to   *)
(* the state with any payload, leave the other chats of the list as they   *)
(* are: the same entries in the same order.                                *)
(***************************************************************************)
Others(chats, c) == SelectSeq(chats, LAMBDA x : x.id # c)

C28_OtherChatsUntouched ==
  \A c \in ChatIds, m \in 0..Len(srvMsgs) :
    LET payload == [id |-> c, lastMessage |-> m]
    IN /\ Others(UPDATE_CHAT(state, payload).chats, c) = Others(state.chats, c)
       /\ m # NoMsg =>
            Others(UPDATE_CHAT_WITH_MESSAGE(state, payload, m).chats, c)
              = Others(state.chats, c)

\* a peer's message has moved its chat to the head of a list of two chats,
\* with the other chat behind it
C28_ChatMovedToHead ==
  /\ Len(state.chats) = 2
  /\ state.chats[1].id # state.chats[2].id
  /\ state.chats[1].lastMessage # NoMsg
  /\ srvMsgs[state.chats[1].lastMessage].sender = Peer
  /\ state.chats[1].lastMessage \in Range(state.messages[state.chats[1].id])
  /\ pushQ = <<>>
  /\ chatFetch.phase = "idle"


(***************************************************************************)
(* C27.  The chat list is ordered by last activity, most recent first.     *)
(* The last activity of an entry is the time of the message it shows as    *)
(* lastMessage, or the time the chat was created when it shows none (the   *)
(* updatedAt by which the server orders the chats).                        *)
(***************************************************************************)
LastActivity(chat) ==
  IF chat.lastMessage # NoMsg THEN srvMsgs[chat.lastMessage].createdAt
  ELSE srvChats[chat.id].createdAt

C27_ChatsByLastActivity ==
  \A i, j \in 1..Len(state.chats) :
    i < j => LastActivity(state.chats[i]) >= LastActivity(state.chats[j])


(***************************************************************************)
(* C26.  A chat fetch that fails with 401 is not retried: no wait for a    *)
(* retry follows the failure.                                              *)
(***************************************************************************)
C26_NoRetryOnAuthError ==
  [][chatFetch.phase = "fail" /\ chatFetch.error = ErrAuth
       => chatFetch'.phase # "wait"]_vars

(***************************************************************************)
(* C30.  A loadChats call makes at most 1 + maxRetries fetch attempts,     *)
(* waits 1, 2 and 4 seconds before the retries, comes to an end, and ends  *)
(* with isLoading false and, when the last attempt has failed, with an     *)
(* error recorded.                                                         *)
(***************************************************************************)
RetryDelays == <<1, 2, 4>>

C30_LoadChatsBounded ==
  /\ [](chatFetch.retry + 1 <= 1 + maxRetries)
  /\ [](chatFetch.phase = "wait"
          => /\ chatFetch.retry + 1 \in DOMAIN RetryDelays
             /\ chatFetch.delay = RetryDelays[chatFetch.retry + 1])
  /\ [][chatFetch.phase # "idle" /\ chatFetch'.phase = "idle"
          => /\ ~state'.isLoading
             /\ chatFetch.phase = "fail" => state'.error \in {ErrAuth, ErrLoadChats}]_vars
  /\ (chatFetch.phase # "idle") ~> (chatFetch.phase = "idle")

\* a call has ended after its last retry failed
C30_LoadChatsGaveUp ==
  /\ chatFetch = IdleChatFetch
  /\ state.error = ErrLoadChats
  /\ ~state.isLoading
  /\ state.chats = <<>>


(***************************************************************************)
(* C23.  When the POST of a sendMessage has failed, the call leaves every  *)
(* message list and the chat list as they are, and it ends for its caller  *)
(* otherwise than a call that succeeded does.                              *)
(***************************************************************************)
C23_SendFailureReported ==
  [][\A i \in DOMAIN sendReq :
       sendReq[i].phase = "fail" /\ sendReq'[i].phase = "idle"
         => /\ state'.messages = state.messages
            /\ state'.chats = state.chats
            /\ sendResult' # Fulfilled]_vars

(***************************************************************************)
(* C24.  When a send has failed the message input still holds what it held *)
(* before: only a send that succeeded clears it.                           *)
(***************************************************************************)
C24_InputKeptOnFailure ==
  [][\A i \in DOMAIN sendReq :
       sendReq[i].phase = "fail" /\ sendReq'[i].phase = "idle"
         => inputValue' = inputValue]_vars

(***************************************************************************)
(* C25.  With the socket not connected, a sendMessage whose POST succeeded *)
(* (currentStateRef being in step with the state) ends with the confirmed  *)
(* message in the chat's message list and as the lastMessage of the chat   *)
(* in the chat list.                                                       *)
(***************************************************************************)
C25_SendWithoutSocket ==
  [][\A i \in DOMAIN sendReq :
       (/\ sendReq[i].phase = "ok" /\ sendReq'[i].phase = "idle"
        /\ ~isConnected(World)
        /\ currentStateRef = RefOf(state))
         => /\ sendReq[i].msg \in Range(state'.messages[sendReq[i].chatId])
            /\ FindChat(state'.chats, sendReq[i].chatId).lastMessage
                 = sendReq[i].msg]_vars


(***************************************************************************)
(* C29.  disconnect() when there is no socket changes nothing of the       *)
(* service, two disconnect() calls leave what one leaves, and a connect()  *)
(* after disconnect() does what a first connect() does: with a token       *)
(* stored it starts a connection of its own, without one it is rejected    *)
(* for the missing token.                                                  *)
(***************************************************************************)
C29_DisconnectIdempotent ==
  LET d == Disconnect(World)
      c == Connect(d)
  IN /\ Disconnect(d) = d
     /\ svc.socket = 0 => d.svc = svc /\ d.conn = conn /\ d.timers = timers
     /\ c.ok => PromiseOf(c, c.ret) = IF token THEN "pending" ELSE ErrNoToken


(***************************************************************************)
(* C31: an inbound message event from another user whose id is not yet in  *)
(* its chat's message list: when the chat is in the chat list, the message *)
(* is appended to the chat's list, becomes its lastMessage and the chat    *)
(* moves to the head of the chat list; when the chat is not in the list,   *)
(* a loadChats request leaves and no message list changes.                 *)
(***************************************************************************)
PeerMessageNext ==
  /\ pushQ # <<>>
  /\ Head(pushQ).type = "message"
  /\ srvMsgs[Head(pushQ).id].sender # Me
  /\ Head(pushQ).id \notin Range(state.messages[srvMsgs[Head(pushQ).id].chatId])

C31_InboundMessageApplied ==
  [][PeerMessageNext /\ pushQ' = Tail(pushQ)
       => LET m == Head(pushQ).id
              chatId == srvMsgs[m].chatId
          IN IF FindChat(state.chats, chatId).id # 0
             THEN /\ state'.messages[chatId] = Append(state.messages[chatId], m)
                  /\ state'.chats # <<>>
                  /\ Head(state'.chats) = [id |-> chatId, lastMessage |-> m]
             ELSE /\ chatFetch'.phase = "sent"
                  /\ state'.messages = state.messages]_vars

(***************************************************************************)
(* C32: a create-message request that succeeds (201) has persisted exactly *)
(* one message, has set the chat's lastMessage to it when it answers, and  *)
(* has emitted message:new for it once to the room of every participant    *)
(* other than the sender and not to the sender's; a request with empty     *)
(* content or for a chat that does not exist persists no message and       *)
(* emits nothing.                                                          *)
(***************************************************************************)
PersistedBy(r) == {i \in 1..Len(msgColl) : msgColl[i].req = r}

EmittedFor(r, room) ==
  {i \in 1..Len(events) : /\ events[i].name = "message:new"
                          /\ events[i].room = room
                          /\ msgColl[events[i].msg].req = r}

PostSucceeded(r) ==
  LET req == msgReqs[r]
      ps == Range(chatsColl[req.chatId].participants)
  IN /\ Cardinality(PersistedBy(r)) = 1
     /\ \A p \in ps \ {req.user} : Cardinality(EmittedFor(r, p)) = 1
     /\ \A p \in Users \ (ps \ {req.user}) : EmittedFor(r, p) = {}

PostRefused(r) ==
  /\ PersistedBy(r) = {}
  /\ \A p \in Users : EmittedFor(r, p) = {}

SentTo(r, s) ==
  /\ msgReqs[r].status = 201
  /\ sockUp[s] = "up"
  /\ SockOwner(s) # msgReqs[r].user
  /\ SockOwner(s) \in Range(chatsColl[msgReqs[r].chatId].participants)

C33_MessagePushed ==
  /\ \A r \in 1..MaxPost, s \in Socks :
       SentTo(r, s) ~> (msgReqs[r].msg # NoMsg /\ invoked[s][msgReqs[r].msg] = 1)
  /\ [](\A s \in Socks, m \in 1..MaxPost : invoked[s][m] <= 1)

(***************************************************************************)
(* C37: on the server, the ids whose last presence broadcast is userOnline *)
(* are the ids of the onlineUsers registry, and every entry of the         *)
(* registry names a socket that is connected.                              *)
(***************************************************************************)
C37_PresenceMatchesRegistry ==
  /\ {x \in PresenceIds : presence[x] = "online"}
       = {onlineUsers[i].userId : i \in 1..Len(onlineUsers)}
  /\ \A i \in 1..Len(onlineUsers) : sockUp[onlineUsers[i].socketId] = "up"

(***************************************************************************)
(* C38: in WebSocketManager isConnecting is true only while a connection   *)
(* attempt is in progress, i.e. while the manager's socket is connecting;  *)
(* so no connect() is turned away as in progress when nothing connects.    *)
(***************************************************************************)
C38_ConnectingMeansAttempt ==
  mgr.isConnecting => (mgr.socket # 0 /\ mgrSocks[mgr.socket].st = "connecting")

(***************************************************************************)
(* C34: at every occurrence of the event, a handler that off() was called  *)
(* with is not invoked, and a handler that is registered (on() was called  *)
(* with it and off() was not since) is invoked once, whether it was        *)
(* registered with or without a socket.                                    *)
(***************************************************************************)
C34_OffStopsHandler ==
  [][lastCalls' # lastCalls \/ (\E i \in 1..MaxMgrSocks : ManagerEvent(i))
       => \A h \in Handlers :
            /\ reg[h] = "off" => lastCalls'[h] = 0
            /\ reg[h] = "on" => lastCalls'[h] = 1]_vars

(***************************************************************************)
(* C35: for a chat and a limit, page p of getMessages holds the messages   *)
(* of the chat ranked (p-1)*limit+1 to p*limit newest first, in ascending  *)
(* order of creation: it holds messages of the chat only, as many as the   *)
(* rank interval has, ascending, none newer than a message of an earlier   *)
(* page; two pages share no message; the pages together hold every message *)
(* of the chat.                                                            *)
(***************************************************************************)
MessagesOf(c) == {m \in Range(srvMsgs) : m.chatId = c}

PageOf(c, p, limit) == getMessagesPage(c, p, limit)

C36_TwoParticipants ==
  /\ \A i \in 1..Len(db) : Len(db[i].participants) = 2
  /\ \A r \in 1..MaxReq :
       (/\ requests[r].pc = "done"
        /\ requests[r].participants # Missing
        /\ Len(NewChatParticipants(requests[r])) # 2)
         => requests[r].status = 500 /\ requests[r].chat = 0
  /\ Len(db) = Cardinality({r \in 1..MaxReq : requests[r].status = 201})

\* a direct chat has been created, and a group request naming two other
\* users has been refused
C36_CreatedAndRefused ==
  /\ Len(db) = 1
  /\ \E r \in 1..MaxReq :
       /\ requests[r].pc = "done"
       /\ requests[r].isGroup
       /\ Len(requests[r].participants) = 2
       /\ requests[r].status = 500


(***************************************************************************)
(* C39: state.isLoading is true whenever at least one loadChats or         *)
(* loadMessages request is still in flight, and false once none is, for    *)
(* every interleaving of overlapping requests.                             *)
(***************************************************************************)
LoadInFlight ==
  \/ chatFetch.phase # "idle"
  \/ \E i \in 1..MaxMsgFetch : msgFetch[i].phase # "idle"

C39_LoadingWhileInFlight == state.isLoading <=> LoadInFlight


(***************************************************************************)
(* C40: after the user has logged out, the chat state holds no             *)
(* conversations, no messages, no active conversation and no typing        *)
(* indicators of the previous session, and no callback still pending from  *)
(* that session puts such data back: the chat data of the reducer state is *)
(* that of the initial state in every state without a session.             *)
(***************************************************************************)
C40_LoggedOutStateEmpty ==
  ~isAuthenticated =>
     /\ state.chats = initialState.chats
     /\ state.messages = initialState.messages
     /\ state.activeChat = initialState.activeChat
     /\ state.typingStatus = initialState.typingStatus

====
